---- MODULE Spec2Model ----
(***************************************************************************)
(* A model of User Tools/iSCSIPropertyList.c: the three cached property    *)
(* dictionaries (targets, initiator, discovery) with their modified flags, *)
(* the CFPreferences store they are synchronized with, and the keychain    *)
(* that holds the CHAP secrets.                                            *)
(*                                                                         *)
(* Every function of the file is a pure operator on a "world" record (the  *)
(* globals of every process, the preference store and the keychain) that   *)
(* returns the new world and the function's result; the actions apply the  *)
(* operators to the variables.  A process is one program linked with the   *)
(* file: it is single threaded, and processes share the store and the      *)
(* keychain.                                                               *)
(***************************************************************************)
EXTENDS Naturals, FiniteSets, Sequences, TLC

VARIABLES
    targetsCache,                \* [Procs -> dict or NULL]      (line 16)
    targetNodesCacheModified,    \* [Procs -> BOOLEAN]           (line 19)
    discoveryCache,              \* [Procs -> dict or NULL]      (line 22)
    discoveryCacheModified,      \* [Procs -> BOOLEAN]           (line 25)
    initiatorCache,              \* [Procs -> dict or NULL]      (line 28)
    initiatorNodeCacheModified,  \* [Procs -> BOOLEAN]           (line 31)
    prefsPending,                \* [Procs -> [some keys -> value]]: values set
                                 \* with CFPreferencesSetValue, not yet flushed
    prefsStore,                  \* [PrefKeys -> dict or NULL]: permanent storage
    keychain,                    \* the set of generic password items
    pc,                          \* [Procs -> position of the process]
    last,                        \* the call that was made last, and its result
    hist,                        \* history of the interleaved runs (SpecSteps):
                                 \* the flags each finished iSCSIPLSynchronize
                                 \* was called with, and the order of the commits
    shadow                       \* a second run of the program (SpecNI only)

vars == <<targetsCache, targetNodesCacheModified, discoveryCache,
          discoveryCacheModified, initiatorCache, initiatorNodeCacheModified,
          prefsPending, prefsStore, keychain, pc, last, hist, shadow>>

(***************************************************************************)
(* Bounds of the model: the names the callers may pass, and the number of  *)
(* shared secrets they choose from.                                        *)
(***************************************************************************)
NumSecrets == 2

Procs == {"A", "B"}
TargetIQNs == {"iqn.t1", "iqn.t2"}
InitiatorIQNs == {"iqn.i1"}
SecretNames == <<"s3cret", "passw0rd", "hunter2", "letmein">>
Users == {"alice", "bob"}
Secrets == {SecretNames[i] : i \in 1..NumSecrets}

(***************************************************************************)
(* Keys and values of the property list (lines 36-75).                     *)
(***************************************************************************)
kiSCSIPKTargetsKey == "Target Nodes"
kiSCSIPKTargetKey == "Target Data"
kiSCSIPKDiscoveryKey == "SendTargets Discovery"
kiSCSIPKInitiatorKey == "Initiator Node"
kiSCSIPKSessionCfgKey == "Session Configuration"
kiSCSIPKPortalsKey == "Portals"
kiSCSIPKPortalKey == "Portal Data"
kiSCSIPKConnectionCfgKey == "Connection Configuration"
kiSCSIPKAuthKey == "Authentication"
kiSCSIPVAuthNone == "None"
kiSCSIPVAuthCHAP == "CHAP"
kiSCSIPKInitiatorIQN == "Name"
kiSCSIPKInitiatorAlias == "Alias"

PrefKeys == {kiSCSIPKTargetsKey, kiSCSIPKInitiatorKey, kiSCSIPKDiscoveryKey}

(***************************************************************************)
(* CoreFoundation values.  NULL is a value no dictionary equals; a         *)
(* dictionary is a function from its keys; a string is a string.           *)
(***************************************************************************)
NULL == [NULL |-> TRUE]
Void == [void |-> TRUE]
Crash == [crash |-> TRUE]

CFDictionaryCreateMutable == [k \in {} |-> NULL]

CFDictionaryContainsKey(d, k) == k \in DOMAIN d

CFDictionaryGetCountOfKey(d, k) == IF k \in DOMAIN d THEN 1 ELSE 0

CFDictionaryGetValue(d, k) == IF k \in DOMAIN d THEN d[k] ELSE NULL

CFDictionarySetValue(d, k, v) ==
    [x \in DOMAIN d \cup {k} |-> IF x = k THEN v ELSE d[x]]

CFDictionaryRemoveValue(d, k) == [x \in DOMAIN d \ {k} |-> d[x]]

(***************************************************************************)
(* The world: the variables as one record, so that a function of the file  *)
(* is an operator from a world to a world.                                 *)
(***************************************************************************)
World(tc, tm, dc, dm, ic, im, pp, ps, kc, c) ==
    [targetsCache |-> tc, targetNodesCacheModified |-> tm,
     discoveryCache |-> dc, discoveryCacheModified |-> dm,
     initiatorCache |-> ic, initiatorNodeCacheModified |-> im,
     prefsPending |-> pp, prefsStore |-> ps, keychain |-> kc, pc |-> c]

Cur == World(targetsCache, targetNodesCacheModified, discoveryCache,
             discoveryCacheModified, initiatorCache, initiatorNodeCacheModified,
             prefsPending, prefsStore, keychain, pc)

InitWorld ==
    World([p \in Procs |-> NULL], [p \in Procs |-> FALSE],
          [p \in Procs |-> NULL], [p \in Procs |-> FALSE],
          [p \in Procs |-> NULL], [p \in Procs |-> FALSE],
          [p \in Procs |-> CFDictionaryCreateMutable],
          [k \in PrefKeys |-> NULL], {}, [p \in Procs |-> "ready"])

\* What a call gives: the new world, the value returned, and whether the
\* keychain was read or written ("none", "read", "write").
Result(w, ret, sec) == [w |-> w, ret |-> ret, sec |-> sec]

\* A NULL object handed to a CoreFoundation function that needs one: the
\* process is killed.
Crashed(w, p, sec) == Result([w EXCEPT !.pc[p] = "crashed"], Crash, sec)

(***************************************************************************)
(* CFPreferences (lines 193, 730-741).  CFPreferencesSetValue records the  *)
(* value for the calling process only (a NULL value removes the key);      *)
(* CFPreferencesAppSynchronize writes the pending values of the calling    *)
(* process to permanent storage, key by key; CFPreferencesCopyValue gives  *)
(* the pending value of a key, or else the stored one.                     *)
(***************************************************************************)
CFPreferencesSetValue(w, p, key, value) ==
    [w EXCEPT !.prefsPending[p] = CFDictionarySetValue(@, key, value)]

CFPreferencesAppSynchronize(w, p) ==
    [w EXCEPT !.prefsStore = [k \in PrefKeys |->
                                 IF k \in DOMAIN w.prefsPending[p]
                                 THEN w.prefsPending[p][k] ELSE @[k]],
              !.prefsPending[p] = CFDictionaryCreateMutable]

CFPreferencesCopyValue(w, p, key) ==
    IF key \in DOMAIN w.prefsPending[p] THEN w.prefsPending[p][key]
    ELSE w.prefsStore[key]

\* A deep mutable copy of a property list has the keys and values of the list.
CFPropertyListCreateDeepCopy(propertyList) ==
    [k \in DOMAIN propertyList |-> propertyList[k]]

\* Lines 190-207.
iSCSIPLCopyPropertyDict(w, p, key) ==
    LET propertyList == CFPreferencesCopyValue(w, p, key)
    IN  IF propertyList = NULL THEN NULL
        ELSE CFPropertyListCreateDeepCopy(propertyList)

(***************************************************************************)
(* The keychain (lines 90-184): a set of generic password items, each with *)
(* a label (the node name), an account (the CHAP user) and the secret; the *)
(* service of every item written here is "iSCSI CHAP".  A generic password *)
(* item is identified by its account and service, so                       *)
(* SecKeychainItemCreateFromContent adds nothing (errSecDuplicateItem)     *)
(* when an item with the account exists; the status is dropped at line     *)
(* 120.  secOK says whether the keychain could be opened and unlocked.     *)
(***************************************************************************)
KeychainItem(label, account, secret) ==
    [label |-> label, account |-> account, secret |-> secret]

SecKeychainItemCreateFromContent(kc, label, account, secret) ==
    IF \E item \in kc : item.account = account THEN kc
    ELSE kc \cup {KeychainItem(label, account, secret)}

\* Lines 90-129.
iSCSIPLSetCHAPSecretForNode(w, nodeIQN, user, sharedSecret, secOK) ==
    IF secOK
    THEN [w EXCEPT !.keychain =
              SecKeychainItemCreateFromContent(@, nodeIQN, user, sharedSecret)]
    ELSE w

\* The items SecItemCopyMatching may give for a label (line 167): it gives one
\* of the items that match.
SecItemCopyMatching(kc, label) == {item \in kc : item.label = label}

\* Lines 135-184: the status, and on success the user and the secret of `item`,
\* one of the items that match.
iSCSIPLCopyCHAPSecretForNode(w, nodeIQN, secOK, item) ==
    IF secOK /\ item \in SecItemCopyMatching(w.keychain, nodeIQN)
    THEN [status |-> "errSecSuccess", user |-> item.account,
          sharedSecret |-> item.secret]
    ELSE [status |-> "error"]

\* The choices a keychain lookup for `label` may be given: an item that
\* matches, or any item when none does.
ItemChoices(w, label) ==
    IF SecItemCopyMatching(w.keychain, label) = {}
    THEN {KeychainItem(label, "", "")}
    ELSE SecItemCopyMatching(w.keychain, label)

(***************************************************************************)
(* Authentication objects (iSCSITypes): None, or CHAP with a user and a    *)
(* shared secret.                                                          *)
(***************************************************************************)
iSCSIAuthCreateNone == [method |-> "None"]

iSCSIAuthCreateCHAP(user, sharedSecret) ==
    [method |-> "CHAP", user |-> user, sharedSecret |-> sharedSecret]

iSCSIAuthGetMethod(auth) == auth.method

Auths == {iSCSIAuthCreateNone} \cup
         {iSCSIAuthCreateCHAP(u, s) : u \in Users, s \in Secrets}

(***************************************************************************)
(* Passing NULL to a CoreFoundation function that needs an object is       *)
(* undefined: the process is killed, or the call is tolerated (the         *)
(* function does nothing and gives 0, false or "not equal").  CFRelease of *)
(* NULL is documented to kill the process.                                 *)
(***************************************************************************)
UBOutcomes == {"crash", "tolerated"}

(***************************************************************************)
(* Objects of iSCSITypes and their dictionaries.  A dictionary made by a   *)
(* codec is kept as one opaque value.                                      *)
(***************************************************************************)
iSCSITargetGetIQN(target) == target.iqn

iSCSITargetCreateDictionary(target) == "target " \o target.iqn

iSCSIDiscoveryRecCreateDictionary(discoveryRecord) ==
    IF discoveryRecord = NULL THEN NULL
    ELSE [k \in DOMAIN discoveryRecord |-> discoveryRecord[k]]

(***************************************************************************)
(* The namespace roots and the record tree (lines 209-342).  A getter      *)
(* gives the world after the call; the dictionary it returns is read from  *)
(* that world with the operator named ...Ref.                              *)
(***************************************************************************)
iSCSIPLCreateTargetsDict == CFDictionaryCreateMutable

iSCSIPLCreateDiscoveryDict == CFDictionaryCreateMutable

\* Lines 233-249.
iSCSIPLCreateInitiatorDict ==
    (kiSCSIPKInitiatorAlias :> "") @@ (kiSCSIPKInitiatorIQN :> "")

\* Mutant of the definition below: creating the cache sets its flag.
iSCSIPLGetInitiator_SetsFlag(w, p, createIfMissing) ==
    IF createIfMissing /\ w.initiatorCache[p] = NULL
    THEN [w EXCEPT !.initiatorCache[p] = iSCSIPLCreateInitiatorDict,
                   !.initiatorNodeCacheModified[p] = TRUE]
    ELSE w

\* Lines 251-257.
iSCSIPLGetInitiator(w, p, createIfMissing) ==
    IF createIfMissing /\ w.initiatorCache[p] = NULL
    THEN [w EXCEPT !.initiatorCache[p] = iSCSIPLCreateInitiatorDict]
    ELSE w

\* Lines 259-265.
iSCSIPLGetTargets(w, p, createIfMissing) ==
    IF createIfMissing /\ w.targetsCache[p] = NULL
    THEN [w EXCEPT !.targetsCache[p] = iSCSIPLCreateTargetsDict]
    ELSE w

\* Lines 267-287.
iSCSIPLGetTargetInfo(w, p, targetIQN, createIfMissing) ==
    LET w1 == iSCSIPLGetTargets(w, p, createIfMissing)
        targetsList == w1.targetsCache[p]
    IN  IF targetsList # NULL /\ createIfMissing
           /\ CFDictionaryGetCountOfKey(targetsList, targetIQN) = 0
        THEN [w1 EXCEPT !.targetsCache[p] =
                 CFDictionarySetValue(targetsList, targetIQN,
                                      CFDictionaryCreateMutable)]
        ELSE w1

\* The value iSCSIPLGetTargetInfo returns (lines 284-286).
TargetInfoRef(w, p, targetIQN) ==
    IF w.targetsCache[p] # NULL
    THEN CFDictionaryGetValue(w.targetsCache[p], targetIQN)
    ELSE NULL

\* CFDictionarySetValue(targetInfo, key, value) on the dictionary of a target
\* that is in the cache: the dictionary is changed in place.
SetInTargetInfo(w, p, targetIQN, key, value) ==
    [w EXCEPT !.targetsCache[p][targetIQN] = CFDictionarySetValue(@, key, value)]

\* Lines 539-548.
iSCSIPLSetTarget(w, p, target) ==
    LET w1 == iSCSIPLGetTargetInfo(w, p, iSCSITargetGetIQN(target), TRUE)
        targetDict == iSCSITargetCreateDictionary(target)
        w2 == SetInTargetInfo(w1, p, iSCSITargetGetIQN(target),
                              kiSCSIPKTargetKey, targetDict)
    IN  Result([w2 EXCEPT !.targetNodesCacheModified[p] = TRUE], Void, "none")

\* Mutant of the definition below: the flag is set only when a target was
\* removed.
iSCSIPLRemoveTarget_FlagWhenRemoved(w, p, targetIQN) ==
    LET targetsList == w.targetsCache[p]
    IN  IF targetsList = NULL THEN Result(w, Void, "none")
        ELSE IF ~CFDictionaryContainsKey(targetsList, targetIQN)
        THEN Result(w, Void, "none")
        ELSE Result([w EXCEPT
                        !.targetsCache[p] =
                            CFDictionaryRemoveValue(targetsList, targetIQN),
                        !.targetNodesCacheModified[p] = TRUE], Void, "none")

\* Lines 550-560.
iSCSIPLRemoveTarget(w, p, targetIQN) ==
    LET w1 == iSCSIPLGetTargets(w, p, FALSE)
        targetsList == w1.targetsCache[p]
    IN  IF targetsList = NULL THEN Result(w1, Void, "none")
        ELSE Result([w1 EXCEPT
                        !.targetsCache[p] =
                            CFDictionaryRemoveValue(targetsList, targetIQN),
                        !.targetNodesCacheModified[p] = TRUE], Void, "none")

\* Lines 564-574: the name, NULL without a cache.  (The dictionaries this file
\* writes always hold the name.)
iSCSIPLCopyInitiatorIQN(w, p) ==
    IF w.initiatorCache[p] = NULL THEN NULL
    ELSE CFDictionaryGetValue(w.initiatorCache[p], kiSCSIPKInitiatorIQN)

\* Lines 578-587.
iSCSIPLSetInitiatorIQN(w, p, initiatorIQN) ==
    LET cache == IF w.initiatorCache[p] = NULL THEN iSCSIPLCreateInitiatorDict
                 ELSE w.initiatorCache[p]
    IN  Result([w EXCEPT
                   !.initiatorCache[p] =
                       CFDictionarySetValue(cache, kiSCSIPKInitiatorIQN,
                                            initiatorIQN),
                   !.initiatorNodeCacheModified[p] = TRUE], Void, "none")

\* Mutant of the definition below: the record replaces the cache.
iSCSIPLAddDiscoveryRecord_Replace(w, p, discoveryRecord) ==
    LET discoveryDict == iSCSIDiscoveryRecCreateDictionary(discoveryRecord)
    IN  IF discoveryDict = NULL THEN Result(w, Void, "none")
        ELSE Result([w EXCEPT !.discoveryCache[p] = discoveryDict,
                              !.discoveryCacheModified[p] = TRUE],
                    Void, "none")

\* Lines 681-703.
iSCSIPLAddDiscoveryRecord(w, p, discoveryRecord) ==
    LET discoveryDict == iSCSIDiscoveryRecCreateDictionary(discoveryRecord)
        cache == IF w.discoveryCache[p] = NULL THEN iSCSIPLCreateDiscoveryDict
                 ELSE w.discoveryCache[p]
    IN  IF discoveryDict = NULL THEN Result(w, Void, "none")
        ELSE Result([w EXCEPT
                        !.discoveryCache[p] =
                            [k \in DOMAIN cache \cup DOMAIN discoveryDict |->
                                IF k \in DOMAIN discoveryDict
                                THEN discoveryDict[k] ELSE cache[k]],
                        !.discoveryCacheModified[p] = TRUE], Void, "none")

\* Lines 716-721: CFRelease(discoveryCache) kills the process when the cache is
\* NULL.
iSCSIPLClearDiscoveryRecord(w, p) ==
    IF w.discoveryCache[p] = NULL THEN Crashed(w, p, "none")
    ELSE Result([w EXCEPT !.discoveryCache[p] = NULL,
                          !.discoveryCacheModified[p] = TRUE], Void, "none")

(***************************************************************************)
(* Portals, session and connection configurations (lines 290-401 and       *)
(* 497-537).  The objects of iSCSITypes are records; the dictionary a      *)
(* codec makes of an object is one opaque string, and the object a codec   *)
(* makes of a dictionary is the object with that dictionary.               *)
(***************************************************************************)
Bool(b) == [bool |-> b]

\* A string or an object that a function returns.
Value(v) == [value |-> v]

iSCSIPortalGetAddress(portal) == portal.address

iSCSIPortalCreateDictionary(portal) == "portal " \o portal.address

iSCSISessionConfigCreateDictionary(sessCfg) == "session " \o sessCfg.id

iSCSIConnectionConfigCreateDictionary(connCfg) == "connection " \o connCfg.id

\* The value iSCSIPLGetTargets returns (line 264).
TargetsRef(w, p) == w.targetsCache[p]

\* Lines 290-310.
iSCSIPLGetPortalsList(w, p, targetIQN, createIfMissing) ==
    LET w1 == iSCSIPLGetTargetInfo(w, p, targetIQN, createIfMissing)
        targetInfo == TargetInfoRef(w1, p, targetIQN)
    IN  IF targetInfo # NULL /\ createIfMissing
           /\ CFDictionaryGetCountOfKey(targetInfo, kiSCSIPKPortalsKey) = 0
        THEN SetInTargetInfo(w1, p, targetIQN, kiSCSIPKPortalsKey,
                             CFDictionaryCreateMutable)
        ELSE w1

\* The value iSCSIPLGetPortalsList returns (lines 307-309).
PortalsListRef(w, p, targetIQN) ==
    LET targetInfo == TargetInfoRef(w, p, targetIQN)
    IN  IF targetInfo # NULL
        THEN CFDictionaryGetValue(targetInfo, kiSCSIPKPortalsKey)
        ELSE NULL

\* CFDictionarySetValue(portalsList, key, value) and
\* CFDictionaryRemoveValue(portalsList, key) on the portals of a target that
\* has them: the dictionary is changed in place.
SetInPortalsList(w, p, targetIQN, key, value) ==
    [w EXCEPT !.targetsCache[p][targetIQN][kiSCSIPKPortalsKey] =
                  CFDictionarySetValue(@, key, value)]

RemoveInPortalsList(w, p, targetIQN, key) ==
    [w EXCEPT !.targetsCache[p][targetIQN][kiSCSIPKPortalsKey] =
                  CFDictionaryRemoveValue(@, key)]

\* Lines 326-333: the dictionary of a new portal.
NewPortalInfo ==
    CFDictionarySetValue(
        CFDictionarySetValue(
            CFDictionarySetValue(CFDictionaryCreateMutable,
                                 kiSCSIPKAuthKey, ""),
            kiSCSIPKConnectionCfgKey, ""),
        kiSCSIPKPortalKey, "")

\* Mutant of the definition below: without the test of line 324 for a portal
\* that is there.
iSCSIPLGetPortalInfo_AlwaysCreates(w, p, targetIQN, portalAddress, createIfMissing) ==
    LET w1 == iSCSIPLGetPortalsList(w, p, targetIQN, createIfMissing)
        portalsList == PortalsListRef(w1, p, targetIQN)
    IN  IF portalsList # NULL /\ createIfMissing
        THEN SetInPortalsList(w1, p, targetIQN, portalAddress, NewPortalInfo)
        ELSE w1

\* Lines 312-342.
iSCSIPLGetPortalInfo(w, p, targetIQN, portalAddress, createIfMissing) ==
    LET w1 == iSCSIPLGetPortalsList(w, p, targetIQN, createIfMissing)
        portalsList == PortalsListRef(w1, p, targetIQN)
    IN  IF portalsList # NULL /\ createIfMissing
           /\ CFDictionaryGetCountOfKey(portalsList, portalAddress) = 0
        THEN SetInPortalsList(w1, p, targetIQN, portalAddress, NewPortalInfo)
        ELSE w1

\* The value iSCSIPLGetPortalInfo returns (lines 339-341).
PortalInfoRef(w, p, targetIQN, portalAddress) ==
    LET portalsList == PortalsListRef(w, p, targetIQN)
    IN  IF portalsList # NULL
        THEN CFDictionaryGetValue(portalsList, portalAddress)
        ELSE NULL

\* CFDictionarySetValue(portalInfo, key, value) on a portal that is in the
\* cache.
SetInPortalInfo(w, p, targetIQN, portalAddress, key, value) ==
    [w EXCEPT !.targetsCache[p][targetIQN][kiSCSIPKPortalsKey][portalAddress] =
                  CFDictionarySetValue(@, key, value)]

\* Mutant of the definition below: the dictionary of the target is made anew
\* with the session configuration as its only key.
iSCSIPLSetSessionConfig_ReplacesTarget(w, p, targetIQN, sessCfg) ==
    LET w1 == iSCSIPLGetTargets(w, p, TRUE)
        sessCfgDict == iSCSISessionConfigCreateDictionary(sessCfg)
        targetInfo == CFDictionarySetValue(CFDictionaryCreateMutable,
                                           kiSCSIPKSessionCfgKey, sessCfgDict)
    IN  Result([w1 EXCEPT
                   !.targetsCache[p] =
                       CFDictionarySetValue(@, targetIQN, targetInfo),
                   !.targetNodesCacheModified[p] = TRUE], Void, "none")

\* Lines 355-366.
iSCSIPLSetSessionConfig(w, p, targetIQN, sessCfg) ==
    LET w1 == iSCSIPLGetTargetInfo(w, p, targetIQN, TRUE)
        sessCfgDict == iSCSISessionConfigCreateDictionary(sessCfg)
        w2 == SetInTargetInfo(w1, p, targetIQN, kiSCSIPKSessionCfgKey,
                              sessCfgDict)
    IN  Result([w2 EXCEPT !.targetNodesCacheModified[p] = TRUE], Void, "none")

\* Lines 497-510.
iSCSIPLSetConnectionConfig(w, p, targetIQN, portalAddress, connCfg) ==
    LET w1 == iSCSIPLGetPortalInfo(w, p, targetIQN, portalAddress, TRUE)
        connCfgDict == iSCSIConnectionConfigCreateDictionary(connCfg)
        w2 == SetInPortalInfo(w1, p, targetIQN, portalAddress,
                              kiSCSIPKConnectionCfgKey, connCfgDict)
    IN  Result([w2 EXCEPT !.targetNodesCacheModified[p] = TRUE], Void, "none")

\* Lines 512-524.
iSCSIPLSetPortalForTarget(w, p, targetIQN, portal) ==
    LET w1 == iSCSIPLGetPortalInfo(w, p, targetIQN,
                                   iSCSIPortalGetAddress(portal), TRUE)
        portalDict == iSCSIPortalCreateDictionary(portal)
        w2 == SetInPortalInfo(w1, p, targetIQN, iSCSIPortalGetAddress(portal),
                              kiSCSIPKPortalKey, portalDict)
    IN  Result([w2 EXCEPT !.targetNodesCacheModified[p] = TRUE], Void, "none")

\* Mutant of the definition below: every portal of the target is removed.
iSCSIPLRemovePortalForTarget_RemovesAll(w, p, targetIQN, portalAddress) ==
    LET w1 == iSCSIPLGetPortalsList(w, p, targetIQN, FALSE)
        portalsList == PortalsListRef(w1, p, targetIQN)
    IN  IF portalsList = NULL THEN Result(w1, Void, "none")
        ELSE Result([SetInTargetInfo(w1, p, targetIQN, kiSCSIPKPortalsKey,
                                     CFDictionaryCreateMutable)
                        EXCEPT !.targetNodesCacheModified[p] = TRUE],
                    Void, "none")

\* Lines 526-537.
iSCSIPLRemovePortalForTarget(w, p, targetIQN, portalAddress) ==
    LET w1 == iSCSIPLGetPortalsList(w, p, targetIQN, FALSE)
        portalsList == PortalsListRef(w1, p, targetIQN)
    IN  IF portalsList = NULL THEN Result(w1, Void, "none")
        ELSE Result([RemoveInPortalsList(w1, p, targetIQN, portalAddress)
                        EXCEPT !.targetNodesCacheModified[p] = TRUE],
                    Void, "none")

(***************************************************************************)
(* The reads (lines 344-401, 591-602, 619-677, 707-713).  A decoder of     *)
(* iSCSITypes that is handed NULL, or the string "" a new portal holds in  *)
(* place of a dictionary, has undefined behaviour: ub is its outcome.      *)
(***************************************************************************)
PortalAddresses == {"10.0.0.1", "10.0.0.2"}
PortalObjects == {[address |-> a] : a \in PortalAddresses}
SessionConfigs == {[id |-> "s1"]}
ConnectionConfigs == {[id |-> "c1"]}

iSCSISessionConfigCreateWithDictionary(dict) ==
    CHOOSE c \in SessionConfigs : iSCSISessionConfigCreateDictionary(c) = dict

iSCSIConnectionConfigCreateWithDictionary(dict) ==
    CHOOSE c \in ConnectionConfigs :
        iSCSIConnectionConfigCreateDictionary(c) = dict

iSCSIPortalCreateWithDictionary(dict) ==
    CHOOSE c \in PortalObjects : iSCSIPortalCreateDictionary(c) = dict

iSCSIDiscoveryRecCreateWithDictionary(dict) ==
    [k \in DOMAIN dict |-> dict[k]]

\* Lines 344-353.
iSCSIPLCopySessionConfig(w, p, targetIQN, ub) ==
    LET w1 == iSCSIPLGetTargetInfo(w, p, targetIQN, FALSE)
        targetInfo == TargetInfoRef(w1, p, targetIQN)
    IN  IF targetInfo = NULL THEN Result(w1, NULL, "none")
        ELSE IF ~CFDictionaryContainsKey(targetInfo, kiSCSIPKSessionCfgKey)
        THEN IF ub = "crash" THEN Crashed(w1, p, "none")
             ELSE Result(w1, NULL, "none")
        ELSE Result(w1,
                    Value(iSCSISessionConfigCreateWithDictionary(
                              CFDictionaryGetValue(targetInfo,
                                                   kiSCSIPKSessionCfgKey))),
                    "none")

\* Lines 368-378.
iSCSIPLCopyPortalForTarget(w, p, targetIQN, portalAddress, ub) ==
    LET w1 == iSCSIPLGetPortalInfo(w, p, targetIQN, portalAddress, FALSE)
        portalInfo == PortalInfoRef(w1, p, targetIQN, portalAddress)
    IN  IF portalInfo = NULL THEN Result(w1, NULL, "none")
        ELSE IF CFDictionaryGetValue(portalInfo, kiSCSIPKPortalKey) = ""
        THEN IF ub = "crash" THEN Crashed(w1, p, "none")
             ELSE Result(w1, NULL, "none")
        ELSE Result(w1,
                    Value(iSCSIPortalCreateWithDictionary(
                              CFDictionaryGetValue(portalInfo,
                                                   kiSCSIPKPortalKey))),
                    "none")

\* Mutant of the definition below: the target is looked up with
\* createIfMissing.
iSCSIPLCopyTarget_Creates(w, p, targetIQN) ==
    LET w1 == iSCSIPLGetTargetInfo(w, p, targetIQN, TRUE)
        targetInfo == TargetInfoRef(w1, p, targetIQN)
    IN  IF ~CFDictionaryContainsKey(targetInfo, kiSCSIPKTargetKey)
        THEN Result(w1, NULL, "none")
        ELSE Result(w1,
                    Value(CFDictionaryGetValue(targetInfo, kiSCSIPKTargetKey)),
                    "none")

\* Lines 380-391.
iSCSIPLCopyTarget(w, p, targetIQN) ==
    LET w1 == iSCSIPLGetTargetInfo(w, p, targetIQN, FALSE)
        targetInfo == TargetInfoRef(w1, p, targetIQN)
    IN  IF targetInfo = NULL THEN Result(w1, NULL, "none")
        ELSE IF ~CFDictionaryContainsKey(targetInfo, kiSCSIPKTargetKey)
        THEN Result(w1, NULL, "none")
        ELSE Result(w1,
                    Value(CFDictionaryGetValue(targetInfo, kiSCSIPKTargetKey)),
                    "none")

\* Lines 393-402.
iSCSIPLCopyConnectionConfig(w, p, targetIQN, portalAddress, ub) ==
    LET w1 == iSCSIPLGetPortalInfo(w, p, targetIQN, portalAddress, FALSE)
        portalInfo == PortalInfoRef(w1, p, targetIQN, portalAddress)
    IN  IF portalInfo = NULL THEN Result(w1, NULL, "none")
        ELSE IF CFDictionaryGetValue(portalInfo, kiSCSIPKConnectionCfgKey) = ""
        THEN IF ub = "crash" THEN Crashed(w1, p, "none")
             ELSE Result(w1, NULL, "none")
        ELSE Result(w1,
                    Value(iSCSIConnectionConfigCreateWithDictionary(
                              CFDictionaryGetValue(portalInfo,
                                                   kiSCSIPKConnectionCfgKey))),
                    "none")

\* Lines 591-602.
iSCSIPLCopyInitiatorAlias(w, p) ==
    IF w.initiatorCache[p] = NULL THEN Result(w, NULL, "none")
    ELSE Result(w,
                Value(CFDictionaryGetValue(w.initiatorCache[p],
                                           kiSCSIPKInitiatorAlias)),
                "none")

\* Lines 606-614.
iSCSIPLSetInitiatorAlias(w, p, initiatorAlias) ==
    LET cache == IF w.initiatorCache[p] = NULL THEN iSCSIPLCreateInitiatorDict
                 ELSE w.initiatorCache[p]
    IN  Result([w EXCEPT
                   !.initiatorCache[p] =
                       CFDictionarySetValue(cache, kiSCSIPKInitiatorAlias,
                                            initiatorAlias),
                   !.initiatorNodeCacheModified[p] = TRUE], Void, "none")

\* Lines 619-623: the targets dictionary goes to CFDictionaryContainsKey
\* without a test for NULL.
iSCSIPLContainsTarget(w, p, targetIQN, ub) ==
    LET w1 == iSCSIPLGetTargets(w, p, FALSE)
        targetsList == TargetsRef(w1, p)
    IN  IF targetsList = NULL
        THEN IF ub = "crash" THEN Crashed(w1, p, "none")
             ELSE Result(w1, Bool(FALSE), "none")
        ELSE Result(w1, Bool(CFDictionaryContainsKey(targetsList, targetIQN)),
                    "none")

\* Lines 629-634.
iSCSIPLContainsPortalForTarget(w, p, targetIQN, portalAddress) ==
    LET w1 == iSCSIPLGetPortalsList(w, p, targetIQN, FALSE)
        portalsList == PortalsListRef(w1, p, targetIQN)
    IN  Result(w1,
               Bool(portalsList # NULL
                    /\ CFDictionaryContainsKey(portalsList, portalAddress)),
               "none")

\* Lines 640-656: the names in the array are in no given order.
iSCSIPLCreateArrayOfTargets(w, p) ==
    LET w1 == iSCSIPLGetTargets(w, p, FALSE)
        targetsList == TargetsRef(w1, p)
    IN  IF targetsList = NULL THEN Result(w1, NULL, "none")
        ELSE IF DOMAIN targetsList = {} THEN Result(w1, NULL, "none")
        ELSE Result(w1, [array |-> DOMAIN targetsList], "none")

\* Lines 661-677.
iSCSIPLCreateArrayOfPortals(w, p, targetIQN) ==
    LET w1 == iSCSIPLGetPortalsList(w, p, targetIQN, FALSE)
        portalsList == PortalsListRef(w1, p, targetIQN)
    IN  IF portalsList = NULL THEN Result(w1, NULL, "none")
        ELSE IF DOMAIN portalsList = {} THEN Result(w1, NULL, "none")
        ELSE Result(w1, [array |-> DOMAIN portalsList], "none")

\* Lines 707-713.
iSCSIPLCopyDiscoveryRecord(w, p) ==
    IF w.discoveryCache[p] = NULL THEN Result(w, NULL, "none")
    ELSE Result(w,
                Value(iSCSIDiscoveryRecCreateWithDictionary(
                          w.discoveryCache[p])),
                "none")

(***************************************************************************)
(* Authentication (lines 404-495).  secOK and item are what the keychain   *)
(* does in this call; ub is the outcome of a NULL dictionary or string     *)
(* handed to CoreFoundation.                                               *)
(***************************************************************************)
\* Mutant of the definition below: without the else of lines 420-421, auth
\* stays NULL when the keychain gives no secret.
iSCSIPLCopyAuthenticationForTarget_NoFallback(w, p, targetIQN, secOK, item, ub) ==
    LET targetInfo == TargetInfoRef(iSCSIPLGetTargetInfo(w, p, targetIQN, FALSE),
                                    p, targetIQN)
        secret == iSCSIPLCopyCHAPSecretForNode(w, targetIQN, secOK, item)
    IN  IF targetInfo = NULL THEN Result(w, NULL, "none")
        ELSE IF ~CFDictionaryContainsKey(targetInfo, kiSCSIPKAuthKey)
        THEN IF ub = "crash" THEN Crashed(w, p, "none")
             ELSE Result(w, iSCSIAuthCreateNone, "none")
        ELSE IF targetInfo[kiSCSIPKAuthKey] = kiSCSIPVAuthCHAP
        THEN IF secret.status = "errSecSuccess"
             THEN Result(w, iSCSIAuthCreateCHAP(secret.user, secret.sharedSecret),
                         "read")
             ELSE Result(w, NULL, "read")
        ELSE Result(w, iSCSIAuthCreateNone, "none")

\* Lines 407-427.  Without an "Authentication" key authMethod is NULL, and
\* line 416 hands it to CFStringCompare.
iSCSIPLCopyAuthenticationForTarget(w, p, targetIQN, secOK, item, ub) ==
    LET targetInfo == TargetInfoRef(iSCSIPLGetTargetInfo(w, p, targetIQN, FALSE),
                                    p, targetIQN)
        secret == iSCSIPLCopyCHAPSecretForNode(w, targetIQN, secOK, item)
    IN  IF targetInfo = NULL THEN Result(w, NULL, "none")
        ELSE IF ~CFDictionaryContainsKey(targetInfo, kiSCSIPKAuthKey)
        THEN IF ub = "crash" THEN Crashed(w, p, "none")
             ELSE Result(w, iSCSIAuthCreateNone, "none")
        ELSE IF targetInfo[kiSCSIPKAuthKey] = kiSCSIPVAuthCHAP
        THEN IF secret.status = "errSecSuccess"
             THEN Result(w, iSCSIAuthCreateCHAP(secret.user, secret.sharedSecret),
                         "read")
             ELSE Result(w, iSCSIAuthCreateNone, "read")
        ELSE Result(w, iSCSIAuthCreateNone, "none")

\* Mutant of the definition below: setting None also deletes the items of the
\* target from the keychain.
iSCSIPLSetAuthenticationForTarget_DeletesSecret(w, p, targetIQN, targetAuth, secOK, ub) ==
    LET targetInfo == TargetInfoRef(iSCSIPLGetTargetInfo(w, p, targetIQN, FALSE),
                                    p, targetIQN)
        isNone == iSCSIAuthGetMethod(targetAuth) = "None"
        tag == IF isNone THEN kiSCSIPVAuthNone ELSE kiSCSIPVAuthCHAP
        w1 == IF targetInfo = NULL THEN w
              ELSE SetInTargetInfo(w, p, targetIQN, kiSCSIPKAuthKey, tag)
        w2 == IF isNone
              THEN [w1 EXCEPT !.keychain = {i \in @ : i.label # targetIQN}]
              ELSE iSCSIPLSetCHAPSecretForNode(w1, targetIQN, targetAuth.user,
                                               targetAuth.sharedSecret, secOK)
    IN  IF targetInfo = NULL /\ ub = "crash" THEN Crashed(w, p, "none")
        ELSE Result([w2 EXCEPT !.targetNodesCacheModified[p] = TRUE], Void,
                    IF isNone THEN "none" ELSE "write")

\* Lines 432-447.  The target is looked up without creating it: for a target
\* that is not in the cache targetInfo is NULL at line 438 or 441.
iSCSIPLSetAuthenticationForTarget(w, p, targetIQN, targetAuth, secOK, ub) ==
    LET targetInfo == TargetInfoRef(iSCSIPLGetTargetInfo(w, p, targetIQN, FALSE),
                                    p, targetIQN)
        isNone == iSCSIAuthGetMethod(targetAuth) = "None"
        tag == IF isNone THEN kiSCSIPVAuthNone ELSE kiSCSIPVAuthCHAP
        w1 == IF targetInfo = NULL THEN w
              ELSE SetInTargetInfo(w, p, targetIQN, kiSCSIPKAuthKey, tag)
        w2 == IF isNone THEN w1
              ELSE iSCSIPLSetCHAPSecretForNode(w1, targetIQN, targetAuth.user,
                                               targetAuth.sharedSecret, secOK)
    IN  IF targetInfo = NULL /\ ub = "crash" THEN Crashed(w, p, "none")
        ELSE Result([w2 EXCEPT !.targetNodesCacheModified[p] = TRUE], Void,
                    IF isNone THEN "none" ELSE "write")

\* Lines 451-474.
iSCSIPLCopyAuthenticationForInitiator(w, p, secOK, item, ub) ==
    LET initiatorInfo == iSCSIPLGetInitiator(w, p, FALSE).initiatorCache[p]
        initiatorIQN == iSCSIPLCopyInitiatorIQN(w, p)
        secret == iSCSIPLCopyCHAPSecretForNode(w, initiatorIQN, secOK, item)
    IN  IF initiatorInfo = NULL THEN Result(w, NULL, "none")
        ELSE IF ~CFDictionaryContainsKey(initiatorInfo, kiSCSIPKAuthKey)
        THEN IF ub = "crash" THEN Crashed(w, p, "none")
             ELSE Result(w, iSCSIAuthCreateNone, "none")
        ELSE IF initiatorInfo[kiSCSIPKAuthKey] = kiSCSIPVAuthCHAP
        THEN IF secret.status = "errSecSuccess"
             THEN Result(w, iSCSIAuthCreateCHAP(secret.user, secret.sharedSecret),
                         "read")
             ELSE Result(w, iSCSIAuthCreateNone, "read")
        ELSE Result(w, iSCSIAuthCreateNone, "none")

\* Mutant of the definition below: the shared secret is kept in the initiator
\* dictionary, beside the tag.
iSCSIPLSetAuthenticationForInitiator_InlineSecret(w, p, initiatorAuth, secOK) ==
    LET w0 == iSCSIPLGetInitiator(w, p, TRUE)
        isNone == iSCSIAuthGetMethod(initiatorAuth) = "None"
        tag == IF isNone THEN kiSCSIPVAuthNone ELSE kiSCSIPVAuthCHAP
        w1 == [w0 EXCEPT !.initiatorCache[p] =
                  CFDictionarySetValue(@, kiSCSIPKAuthKey, tag)]
        w2 == IF isNone THEN w1
              ELSE [w1 EXCEPT !.initiatorCache[p] =
                       CFDictionarySetValue(@, "Secret",
                                            initiatorAuth.sharedSecret)]
    IN  Result([w2 EXCEPT !.initiatorNodeCacheModified[p] = TRUE], Void,
               IF isNone THEN "none" ELSE "write")

\* Lines 478-495.
iSCSIPLSetAuthenticationForInitiator(w, p, initiatorAuth, secOK) ==
    LET w0 == iSCSIPLGetInitiator(w, p, TRUE)
        isNone == iSCSIAuthGetMethod(initiatorAuth) = "None"
        tag == IF isNone THEN kiSCSIPVAuthNone ELSE kiSCSIPVAuthCHAP
        w1 == [w0 EXCEPT !.initiatorCache[p] =
                  CFDictionarySetValue(@, kiSCSIPKAuthKey, tag)]
        w2 == IF isNone THEN w1
              ELSE iSCSIPLSetCHAPSecretForNode(w1, iSCSIPLCopyInitiatorIQN(w1, p),
                                               initiatorAuth.user,
                                               initiatorAuth.sharedSecret, secOK)
    IN  Result([w2 EXCEPT !.initiatorNodeCacheModified[p] = TRUE], Void,
               IF isNone THEN "none" ELSE "write")

(***************************************************************************)
(* iSCSIPLSynchronize (lines 725-774), statement by statement.             *)
(***************************************************************************)
\* Mutant of the definition below: SyncSetTargets without the test of line 729.
SyncSetTargets_Always(w, p) ==
    CFPreferencesSetValue(w, p, kiSCSIPKTargetsKey, w.targetsCache[p])

\* Mutant of the definition below: the cache is merged into the value that is
\* stored, target by target, instead of replacing it.
SyncSetTargets_Merge(w, p) ==
    LET stored == CFPreferencesCopyValue(w, p, kiSCSIPKTargetsKey)
        cache == w.targetsCache[p]
    IN  IF ~w.targetNodesCacheModified[p] THEN w
        ELSE IF stored = NULL \/ cache = NULL
        THEN CFPreferencesSetValue(w, p, kiSCSIPKTargetsKey, cache)
        ELSE CFPreferencesSetValue(w, p, kiSCSIPKTargetsKey,
                 [k \in DOMAIN stored \cup DOMAIN cache |->
                     IF k \in DOMAIN cache THEN cache[k] ELSE stored[k]])

\* Lines 729-731.
SyncSetTargets(w, p) ==
    IF w.targetNodesCacheModified[p]
    THEN CFPreferencesSetValue(w, p, kiSCSIPKTargetsKey, w.targetsCache[p])
    ELSE w

\* Mutant of the definition below: SyncSetInitiator without the test of line
\* 733.
SyncSetInitiator_Always(w, p) ==
    CFPreferencesSetValue(w, p, kiSCSIPKInitiatorKey, w.initiatorCache[p])

\* Mutant of the definition below: the commit of line 741 comes right after
\* the write of the initiator, before the write of the discovery record.
SyncSetInitiator_ThenCommits(w, p) ==
    CFPreferencesAppSynchronize(
        IF w.initiatorNodeCacheModified[p]
        THEN CFPreferencesSetValue(w, p, kiSCSIPKInitiatorKey,
                                   w.initiatorCache[p])
        ELSE w, p)

\* Lines 733-735.
SyncSetInitiator(w, p) ==
    IF w.initiatorNodeCacheModified[p]
    THEN CFPreferencesSetValue(w, p, kiSCSIPKInitiatorKey, w.initiatorCache[p])
    ELSE w

\* Mutant of the definition below: a NULL discovery cache is not written, so
\* the value that is stored stays.
SyncSetDiscovery_SkipsNull(w, p) ==
    IF w.discoveryCacheModified[p] /\ w.discoveryCache[p] # NULL
    THEN CFPreferencesSetValue(w, p, kiSCSIPKDiscoveryKey, w.discoveryCache[p])
    ELSE w

\* Lines 737-739.
SyncSetDiscovery(w, p) ==
    IF w.discoveryCacheModified[p]
    THEN CFPreferencesSetValue(w, p, kiSCSIPKDiscoveryKey, w.discoveryCache[p])
    ELSE w

\* Line 741.
SyncCommit(w, p) == CFPreferencesAppSynchronize(w, p)

\* Mutant of the definition below: SyncReloadTargets that keeps a cache it has.
SyncReloadTargets_KeepsCache(w, p) ==
    IF ~w.targetNodesCacheModified[p] /\ w.targetsCache[p] = NULL
    THEN [w EXCEPT !.targetsCache[p] =
             iSCSIPLCopyPropertyDict(w, p, kiSCSIPKTargetsKey)]
    ELSE w

\* Lines 743-751.
SyncReloadTargets(w, p) ==
    IF ~w.targetNodesCacheModified[p]
    THEN [w EXCEPT !.targetsCache[p] =
             iSCSIPLCopyPropertyDict(w, p, kiSCSIPKTargetsKey)]
    ELSE w

\* Lines 753-761.
SyncReloadInitiator(w, p) ==
    IF ~w.initiatorNodeCacheModified[p]
    THEN [w EXCEPT !.initiatorCache[p] =
             iSCSIPLCopyPropertyDict(w, p, kiSCSIPKInitiatorKey)]
    ELSE w

\* Lines 763-771.
SyncReloadDiscovery(w, p) ==
    IF ~w.discoveryCacheModified[p]
    THEN [w EXCEPT !.discoveryCache[p] =
             iSCSIPLCopyPropertyDict(w, p, kiSCSIPKDiscoveryKey)]
    ELSE w

\* Mutant of the definition below: SyncClearFlags that forgets the discovery flag.
SyncClearFlags_TwoOnly(w, p) ==
    [w EXCEPT !.initiatorNodeCacheModified[p] = FALSE,
              !.targetNodesCacheModified[p] = FALSE]

\* Line 773.
SyncClearFlags(w, p) ==
    [w EXCEPT !.initiatorNodeCacheModified[p] = FALSE,
              !.targetNodesCacheModified[p] = FALSE,
              !.discoveryCacheModified[p] = FALSE]

\* The whole call, with no other process acting during it.
iSCSIPLSynchronize(w, p) ==
    LET w1 == SyncSetDiscovery(SyncSetInitiator(SyncSetTargets(w, p), p), p)
        w2 == SyncCommit(w1, p)
        w3 == SyncReloadDiscovery(
                  SyncReloadInitiator(SyncReloadTargets(w2, p), p), p)
    IN  Result(SyncClearFlags(w3, p), Void, "none")

(***************************************************************************)
(* The actions: a call of process p, made when p is not inside another     *)
(* call, applies the function to the variables and records the call.       *)
(***************************************************************************)
Install(w) ==
    /\ targetsCache' = w.targetsCache
    /\ targetNodesCacheModified' = w.targetNodesCacheModified
    /\ discoveryCache' = w.discoveryCache
    /\ discoveryCacheModified' = w.discoveryCacheModified
    /\ initiatorCache' = w.initiatorCache
    /\ initiatorNodeCacheModified' = w.initiatorNodeCacheModified
    /\ prefsPending' = w.prefsPending
    /\ prefsStore' = w.prefsStore
    /\ keychain' = w.keychain
    /\ pc' = w.pc

CallRecord(p, op, args, secOK, r) ==
    [proc |-> p, op |-> op, args |-> args, secOK |-> secOK,
     ret |-> r.ret, sec |-> r.sec]

Call(p, op, args, secOK, r) ==
    /\ pc[p] = "ready"
    /\ Install(r.w)
    /\ last' = CallRecord(p, op, args, secOK, r)
    /\ UNCHANGED <<hist, shadow>>

SetTarget(p, target) ==
    Call(p, "SetTarget", <<iSCSITargetGetIQN(target)>>, TRUE,
         iSCSIPLSetTarget(Cur, p, target))

RemoveTarget(p, targetIQN) ==
    Call(p, "RemoveTarget", <<targetIQN>>, TRUE,
         iSCSIPLRemoveTarget(Cur, p, targetIQN))

SetInitiatorIQN(p, initiatorIQN) ==
    Call(p, "SetInitiatorIQN", <<initiatorIQN>>, TRUE,
         iSCSIPLSetInitiatorIQN(Cur, p, initiatorIQN))

AddDiscoveryRecord(p, discoveryRecord) ==
    Call(p, "AddDiscoveryRecord", <<discoveryRecord>>, TRUE,
         iSCSIPLAddDiscoveryRecord(Cur, p, discoveryRecord))

ClearDiscoveryRecord(p) ==
    Call(p, "ClearDiscoveryRecord", <<>>, TRUE,
         iSCSIPLClearDiscoveryRecord(Cur, p))

\* The outcomes to choose from in a call: those of UBOutcomes when the call
\* hands a NULL to CoreFoundation, and else no choice.
UBChoices(handsNull) == IF handsNull THEN UBOutcomes ELSE {"tolerated"}

\* What the keychain may do in a call: work or fail when the call uses it.
SecChoices(usesKeychain) == IF usesKeychain THEN BOOLEAN ELSE {TRUE}

HasAuthKey(dict) == dict # NULL /\ CFDictionaryContainsKey(dict, kiSCSIPKAuthKey)

IsCHAP(dict) == HasAuthKey(dict) /\ dict[kiSCSIPKAuthKey] = kiSCSIPVAuthCHAP

CopyAuthenticationForTarget(p, targetIQN) ==
    \E secOK \in SecChoices(IsCHAP(TargetInfoRef(Cur, p, targetIQN))),
       ub \in UBChoices(/\ TargetInfoRef(Cur, p, targetIQN) # NULL
                        /\ ~HasAuthKey(TargetInfoRef(Cur, p, targetIQN))),
       item \in ItemChoices(Cur, targetIQN) :
        Call(p, "CopyAuthenticationForTarget", <<targetIQN>>, secOK,
             iSCSIPLCopyAuthenticationForTarget(Cur, p, targetIQN, secOK, item, ub))

SetAuthenticationForTarget(p, targetIQN, targetAuth) ==
    \E secOK \in SecChoices(iSCSIAuthGetMethod(targetAuth) = "CHAP"),
       ub \in UBChoices(TargetInfoRef(Cur, p, targetIQN) = NULL) :
        Call(p, "SetAuthenticationForTarget", <<targetIQN, targetAuth>>, secOK,
             iSCSIPLSetAuthenticationForTarget(Cur, p, targetIQN, targetAuth,
                                               secOK, ub))

CopyAuthenticationForInitiator(p) ==
    \E secOK \in SecChoices(IsCHAP(initiatorCache[p])),
       ub \in UBChoices(initiatorCache[p] # NULL /\ ~HasAuthKey(initiatorCache[p])),
       item \in IF initiatorCache[p] = NULL THEN {NULL}
                ELSE ItemChoices(Cur, iSCSIPLCopyInitiatorIQN(Cur, p)) :
        Call(p, "CopyAuthenticationForInitiator", <<>>, secOK,
             iSCSIPLCopyAuthenticationForInitiator(Cur, p, secOK, item, ub))

SetAuthenticationForInitiator(p, initiatorAuth) ==
    \E secOK \in SecChoices(iSCSIAuthGetMethod(initiatorAuth) = "CHAP") :
        Call(p, "SetAuthenticationForInitiator", <<initiatorAuth>>, secOK,
             iSCSIPLSetAuthenticationForInitiator(Cur, p, initiatorAuth, secOK))

\* The modified flags of p, in the order iSCSIPLSynchronize reads them.
Flags(p) ==
    <<targetNodesCacheModified[p], initiatorNodeCacheModified[p],
      discoveryCacheModified[p]>>

\* iSCSIPLSynchronize as one step: no other process acts during the call.  The
\* call is recorded with the flags it found.
Synchronize(p) ==
    Call(p, "Synchronize", Flags(p), TRUE, iSCSIPLSynchronize(Cur, p))

(***************************************************************************)
(* iSCSIPLSynchronize one statement at a time, for the runs in which the   *)
(* calls of two processes interleave.  pc[p] names the line p is at.       *)
(***************************************************************************)
Step(p, from, to, w) ==
    /\ pc[p] = from
    /\ Install([w EXCEPT !.pc[p] = to])
    /\ last' = [proc |-> p, op |-> IF to = "ready" THEN "Synchronize" ELSE to,
                args |-> Flags(p), secOK |-> TRUE, ret |-> Void, sec |-> "none"]
    /\ hist' = [hist EXCEPT
                    !.commits = IF from = "L741" THEN Append(@, p) ELSE @,
                    !.synced[p] = IF to = "ready" THEN Flags(p) ELSE @]
    /\ UNCHANGED shadow

SyncStepSetTargets(p) == Step(p, "ready", "L733", SyncSetTargets(Cur, p))

SyncStepSetInitiator(p) == Step(p, "L733", "L737", SyncSetInitiator(Cur, p))

SyncStepSetDiscovery(p) == Step(p, "L737", "L741", SyncSetDiscovery(Cur, p))

SyncStepCommit(p) == Step(p, "L741", "L743", SyncCommit(Cur, p))

SyncStepReloadTargets(p) == Step(p, "L743", "L753", SyncReloadTargets(Cur, p))

SyncStepReloadInitiator(p) == Step(p, "L753", "L763", SyncReloadInitiator(Cur, p))

SyncStepReloadDiscovery(p) == Step(p, "L763", "L773", SyncReloadDiscovery(Cur, p))

SyncStepClearFlags(p) == Step(p, "L773", "ready", SyncClearFlags(Cur, p))

(***************************************************************************)
(* Initial state: every process has just started (lines 16-31), nothing is *)
(* stored.                                                                 *)
(***************************************************************************)
NoCall ==
    [proc |-> "", op |-> "", args |-> <<>>, secOK |-> TRUE, ret |-> Void,
     sec |-> "none"]

InitProgram ==
    /\ targetsCache = InitWorld.targetsCache
    /\ targetNodesCacheModified = InitWorld.targetNodesCacheModified
    /\ discoveryCache = InitWorld.discoveryCache
    /\ discoveryCacheModified = InitWorld.discoveryCacheModified
    /\ initiatorCache = InitWorld.initiatorCache
    /\ initiatorNodeCacheModified = InitWorld.initiatorNodeCacheModified
    /\ prefsPending = InitWorld.prefsPending
    /\ prefsStore = InitWorld.prefsStore
    /\ keychain = InitWorld.keychain
    /\ pc = InitWorld.pc
    /\ last = NoCall
    /\ hist = [commits |-> <<>>, synced |-> [p \in Procs |-> <<>>]]

Init == InitProgram /\ shadow = NULL

(***************************************************************************)
(* Spec: two processes change their caches and synchronize; each is the    *)
(* external writer of the other.                                           *)
(***************************************************************************)
SyncTargets == {[iqn |-> "iqn.t1"]}
SyncDiscoveryRecs == {("iqn.t1" :> "10.0.0.1:3260")}

Next ==
    \E p \in Procs :
        \/ \E target \in SyncTargets : SetTarget(p, target)
        \/ \E target \in SyncTargets : RemoveTarget(p, iSCSITargetGetIQN(target))
        \/ \E initiatorIQN \in InitiatorIQNs : SetInitiatorIQN(p, initiatorIQN)
        \/ \E rec \in SyncDiscoveryRecs : AddDiscoveryRecord(p, rec)
        \/ ClearDiscoveryRecord(p)
        \/ Synchronize(p)

Spec == Init /\ [][Next]_vars

(***************************************************************************)
(* The namespaces, as iSCSIPLSynchronize treats them: key, cache, flag.    *)
(***************************************************************************)
CacheOf(key, p) ==
    CASE key = kiSCSIPKTargetsKey -> targetsCache[p]
      [] key = kiSCSIPKInitiatorKey -> initiatorCache[p]
      [] key = kiSCSIPKDiscoveryKey -> discoveryCache[p]

ModifiedOf(key, p) ==
    CASE key = kiSCSIPKTargetsKey -> targetNodesCacheModified[p]
      [] key = kiSCSIPKInitiatorKey -> initiatorNodeCacheModified[p]
      [] key = kiSCSIPKDiscoveryKey -> discoveryCacheModified[p]

\* The flag of `key` in a tuple of flags as Flags(p) gives them.
FlagIn(flags, key) ==
    CASE key = kiSCSIPKTargetsKey -> flags[1]
      [] key = kiSCSIPKInitiatorKey -> flags[2]
      [] key = kiSCSIPKDiscoveryKey -> flags[3]

\* The step is a whole call of iSCSIPLSynchronize by p.
IsSynchronize(p) == pc[p] = "ready" /\ last'.op = "Synchronize" /\ last'.proc = p

(***************************************************************************)
(* C1: iSCSIPLSynchronize writes the cached value of a namespace over the  *)
(* stored one exactly when the namespace's modified flag was set at the    *)
(* call (a NULL cache removes the stored value); the stored value of a     *)
(* namespace whose flag was not set is as it was before the call.          *)
(***************************************************************************)
C1_WritesIffModified ==
    [][\A p \in Procs : IsSynchronize(p) =>
          \A key \in PrefKeys :
              prefsStore'[key] = IF ModifiedOf(key, p) THEN CacheOf(key, p)
                                 ELSE prefsStore[key]]_vars

\* A call that found only the targets flag set, with a discovery value (of the
\* other process) stored and a value stored for the targets.
C1_Witness ==
    /\ last.op = "Synchronize" /\ last.args = <<TRUE, FALSE, FALSE>>
    /\ prefsStore[kiSCSIPKTargetsKey] = targetsCache[last.proc]
    /\ prefsStore[kiSCSIPKTargetsKey] # NULL
    /\ prefsStore[kiSCSIPKDiscoveryKey] # NULL
    /\ prefsStore[kiSCSIPKInitiatorKey] = NULL

(***************************************************************************)
(* C2: after iSCSIPLSynchronize the cache of every namespace whose flag    *)
(* was not set at the call equals the stored value (NULL when nothing is   *)
(* stored), whatever the cache held before; the cache of a namespace whose *)
(* flag was set is the cache it was.                                       *)
(***************************************************************************)
C2_ReloadsUnmodified ==
    [][\A p \in Procs : IsSynchronize(p) =>
          \A key \in PrefKeys :
              IF ModifiedOf(key, p)
              THEN CacheOf(key, p)' = CacheOf(key, p)
              ELSE CacheOf(key, p)' = prefsStore'[key]]_vars

\* A call of A that found no flag set and loaded targets that B has stored.
C2_Witness ==
    /\ last.op = "Synchronize" /\ last.proc = "A"
    /\ last.args = <<FALSE, FALSE, FALSE>>
    /\ targetsCache["A"] # NULL
    /\ targetsCache["A"] = targetsCache["B"]
    /\ pc["B"] = "ready" /\ ~targetNodesCacheModified["B"]
    /\ initiatorCache["A"] = NULL

(***************************************************************************)
(* C3: after any call of iSCSIPLSynchronize the three modified flags of    *)
(* the process are false.                                                  *)
(***************************************************************************)
C3_FlagsCleared ==
    last.op = "Synchronize" =>
        /\ ~targetNodesCacheModified[last.proc]
        /\ ~initiatorNodeCacheModified[last.proc]
        /\ ~discoveryCacheModified[last.proc]

\* A call that found all three flags set.
C3_Witness ==
    /\ last.op = "Synchronize" /\ last.args = <<TRUE, TRUE, TRUE>>
    /\ Flags(last.proc) = <<FALSE, FALSE, FALSE>>


(***************************************************************************)
(* SpecSteps: one round of two processes.  Each process changes its caches *)
(* (its own target, its own initiator name, its own discovery record) and  *)
(* then calls iSCSIPLSynchronize once; the statements of the two calls,    *)
(* and the changes of the process that has not called yet, interleave in   *)
(* every way.                                                              *)
(***************************************************************************)
StepsTarget(p) == [iqn |-> IF p = "A" THEN "iqn.t1" ELSE "iqn.t2"]

StepsInitiatorIQN(p) == IF p = "A" THEN "iqn.i1" ELSE "iqn.i2"

StepsDiscoveryRec(p) ==
    IF p = "A" THEN ("iqn.t1" :> "10.0.0.1:3260") ELSE ("iqn.t2" :> "10.0.0.2:3260")

\* p has returned from its call of iSCSIPLSynchronize.
Synced(p) == hist.synced[p] # <<>>

NextSteps ==
    \E p \in Procs :
        \/ ~Synced(p) /\ SetTarget(p, StepsTarget(p))
        \/ ~Synced(p) /\ SetInitiatorIQN(p, StepsInitiatorIQN(p))
        \/ ~Synced(p) /\ AddDiscoveryRecord(p, StepsDiscoveryRec(p))
        \/ ~Synced(p) /\ SyncStepSetTargets(p)
        \/ SyncStepSetInitiator(p)
        \/ SyncStepSetDiscovery(p)
        \/ SyncStepCommit(p)
        \/ SyncStepReloadTargets(p)
        \/ SyncStepReloadInitiator(p)
        \/ SyncStepReloadDiscovery(p)
        \/ SyncStepClearFlags(p)

SpecSteps == Init /\ [][NextSteps]_vars

\* The process whose pending values were written to the store last.
LastCommitter == hist.commits[Len(hist.commits)]

(***************************************************************************)
(* C4: when both processes have returned from iSCSIPLSynchronize and no    *)
(* namespace was modified by both, the store holds, for every namespace a  *)
(* process had modified, the value of that process, however the statements *)
(* of the two calls interleaved.                                           *)
(***************************************************************************)
C4_DisjointWritesKept ==
    (/\ \A p \in Procs : Synced(p)
     /\ \A key \in PrefKeys :
            ~(FlagIn(hist.synced["A"], key) /\ FlagIn(hist.synced["B"], key)))
    => \A p \in Procs, key \in PrefKeys :
           FlagIn(hist.synced[p], key) => prefsStore[key] = CacheOf(key, p)

\* A modified the targets only and B the initiator only; B committed first.
C4_Witness ==
    /\ hist.synced["A"] = <<TRUE, FALSE, FALSE>>
    /\ hist.synced["B"] = <<FALSE, TRUE, FALSE>>
    /\ hist.commits = <<"B", "A">>
    /\ prefsStore[kiSCSIPKTargetsKey] = targetsCache["A"]
    /\ prefsStore[kiSCSIPKInitiatorKey] = initiatorCache["B"]
    /\ targetsCache["A"] # NULL /\ initiatorCache["B"] # NULL

(***************************************************************************)
(* C5: when both processes had modified a namespace and both have returned *)
(* from iSCSIPLSynchronize, the stored value of that namespace is the      *)
(* whole cache of the process that committed last; nothing of the other    *)
(* process's cache is merged into it.                                      *)
(***************************************************************************)
C5_LastWriterWins ==
    \A key \in PrefKeys :
        (/\ \A p \in Procs : Synced(p)
         /\ \A p \in Procs : FlagIn(hist.synced[p], key))
        => prefsStore[key] = CacheOf(key, LastCommitter)

\* Both modified the targets, each its own target; A committed last and the
\* target of B is not stored.
C5_Witness ==
    /\ \A p \in Procs : Synced(p) /\ FlagIn(hist.synced[p], kiSCSIPKTargetsKey)
    /\ hist.commits = <<"B", "A">>
    /\ "iqn.t2" \in DOMAIN targetsCache["B"]
    /\ DOMAIN prefsStore[kiSCSIPKTargetsKey] = {"iqn.t1"}

(***************************************************************************)
(* SpecAuth: one process sets and copies the authentication of a target    *)
(* and of the initiator, with a keychain that may fail in any call.  The   *)
(* caches are not synchronized here: a reload gives a cache the values     *)
(* that a cache had when it was stored.                                    *)
(***************************************************************************)
AuthProcs == {"A"}
AuthTargets == {[iqn |-> "iqn.t1"]}
AuthTargetIQNs == {iSCSITargetGetIQN(target) : target \in AuthTargets}

NextAuth ==
    \E p \in AuthProcs :
        \/ \E target \in AuthTargets : SetTarget(p, target)
        \/ \E initiatorIQN \in InitiatorIQNs : SetInitiatorIQN(p, initiatorIQN)
        \/ \E t \in AuthTargetIQNs, auth \in Auths :
               SetAuthenticationForTarget(p, t, auth)
        \/ \E t \in AuthTargetIQNs : CopyAuthenticationForTarget(p, t)
        \/ \E auth \in Auths : SetAuthenticationForInitiator(p, auth)
        \/ CopyAuthenticationForInitiator(p)

SpecAuth == Init /\ [][NextAuth]_vars

\* The authentication tag of a target or of the initiator in the cache of p:
\* "" stands for a record without the key.
TargetAuthTag(p, targetIQN) ==
    IF CFDictionaryContainsKey(TargetInfoRef(Cur, p, targetIQN), kiSCSIPKAuthKey)
    THEN TargetInfoRef(Cur, p, targetIQN)[kiSCSIPKAuthKey] ELSE ""

InitiatorAuthTag(p) ==
    IF CFDictionaryContainsKey(initiatorCache[p], kiSCSIPKAuthKey)
    THEN initiatorCache[p][kiSCSIPKAuthKey] ELSE ""

TargetExists(p, targetIQN) == TargetInfoRef(Cur, p, targetIQN) # NULL

(***************************************************************************)
(* C6: for a target that exists and a keychain that works, a call of       *)
(* iSCSIPLCopyAuthenticationForTarget(x) that follows                      *)
(* iSCSIPLSetAuthenticationForTarget(x, CHAP(user, secret)) returns CHAP   *)
(* with that user and secret, whatever the keychain held before.           *)
(***************************************************************************)
C6_SetThenCopyRoundTrip ==
    [][(/\ last.op = "SetAuthenticationForTarget" /\ last.ret = Void
        /\ last.secOK /\ iSCSIAuthGetMethod(last.args[2]) = "CHAP"
        /\ TargetExists(last.proc, last.args[1])
        /\ last'.op = "CopyAuthenticationForTarget" /\ last'.proc = last.proc
        /\ last'.args[1] = last.args[1] /\ last'.secOK)
       => last'.ret = last.args[2]]_vars

(***************************************************************************)
(* C7: when the authentication tag of a node is CHAP and the keychain      *)
(* gives no secret for the node (it cannot be opened, or holds no item for *)
(* the node), iSCSIPLCopyAuthenticationForTarget and                       *)
(* iSCSIPLCopyAuthenticationForInitiator return a None authentication and  *)
(* the process goes on.                                                    *)
(***************************************************************************)
LookupFailed(label) ==
    ~last.secOK \/ SecItemCopyMatching(keychain, label) = {}

C7_FailedLookupGivesNone ==
    /\ (/\ last.op = "CopyAuthenticationForTarget"
        /\ TargetAuthTag(last.proc, last.args[1]) = kiSCSIPVAuthCHAP
        /\ LookupFailed(last.args[1]))
       => last.ret = iSCSIAuthCreateNone /\ pc[last.proc] = "ready"
    /\ (/\ last.op = "CopyAuthenticationForInitiator"
        /\ InitiatorAuthTag(last.proc) = kiSCSIPVAuthCHAP
        /\ LookupFailed(iSCSIPLCopyInitiatorIQN(Cur, last.proc)))
       => last.ret = iSCSIAuthCreateNone /\ pc[last.proc] = "ready"

\* The keychain holds the secret of the target and could not be opened.
C7_Witness ==
    /\ last.op = "CopyAuthenticationForTarget" /\ ~last.secOK
    /\ TargetAuthTag(last.proc, last.args[1]) = kiSCSIPVAuthCHAP
    /\ SecItemCopyMatching(keychain, last.args[1]) # {}
    /\ last.ret = iSCSIAuthCreateNone

(***************************************************************************)
(* C8: for a node whose record exists and has no authentication tag, or    *)
(* the tag None, iSCSIPLCopyAuthenticationForTarget and                    *)
(* iSCSIPLCopyAuthenticationForInitiator return a None authentication,     *)
(* do not read the keychain, and the process goes on.                      *)
(***************************************************************************)
C8_NoTagGivesNone ==
    /\ (/\ last.op = "CopyAuthenticationForTarget"
        /\ TargetExists(last.proc, last.args[1])
        /\ TargetAuthTag(last.proc, last.args[1]) \in {"", kiSCSIPVAuthNone})
       => /\ last.ret = iSCSIAuthCreateNone /\ last.sec = "none"
          /\ pc[last.proc] = "ready"
    /\ (/\ last.op = "CopyAuthenticationForInitiator"
        /\ initiatorCache[last.proc] # NULL
        /\ InitiatorAuthTag(last.proc) \in {"", kiSCSIPVAuthNone})
       => /\ last.ret = iSCSIAuthCreateNone /\ last.sec = "none"
          /\ pc[last.proc] = "ready"

(***************************************************************************)
(* C9: iSCSIPLSetAuthenticationForTarget and                               *)
(* iSCSIPLSetAuthenticationForInitiator with a None authentication write   *)
(* the tag "None" into the record of the node (for a target: when it has a *)
(* record) and leave the keychain as it was, without writing to it.        *)
(***************************************************************************)
C9_NoneLeavesKeychain ==
    [][\A p \in Procs, t \in TargetIQNs :
          /\ (/\ pc[p] = "ready" /\ last'.proc = p
              /\ last'.op = "SetAuthenticationForTarget"
              /\ last'.args = <<t, iSCSIAuthCreateNone>>)
             => /\ keychain' = keychain /\ last'.sec = "none"
                /\ TargetExists(p, t)
                      => /\ TargetAuthTag(p, t)' = kiSCSIPVAuthNone
                         /\ last'.ret = Void
          /\ (/\ pc[p] = "ready" /\ last'.proc = p
              /\ last'.op = "SetAuthenticationForInitiator"
              /\ last'.args = <<iSCSIAuthCreateNone>>)
             => /\ keychain' = keychain /\ last'.sec = "none"
                /\ InitiatorAuthTag(p)' = kiSCSIPVAuthNone
                /\ last'.ret = Void]_vars

\* None was set for a target whose CHAP secret is in the keychain.
C9_Witness ==
    /\ last.op = "SetAuthenticationForTarget"
    /\ iSCSIAuthGetMethod(last.args[2]) = "None"
    /\ TargetAuthTag(last.proc, last.args[1]) = kiSCSIPVAuthNone
    /\ \E item \in keychain : item.label = last.args[1]

(***************************************************************************)
(* SpecNI: two runs of one process side by side.  The variables hold the   *)
(* first run and `shadow` the second; every step makes the same call in    *)
(* both, with the same arguments and the same behaviour of the keychain,   *)
(* except that a CHAP authentication carries secret1 in the first run and  *)
(* secret2 in the second.                                                  *)
(***************************************************************************)
NIProcs == {"A"}
NIUsers == {"alice"}

InitNI == InitProgram /\ shadow = InitWorld

PairCall(p, op, r1, r2) ==
    /\ pc[p] = "ready"
    /\ Install(r1.w)
    /\ last' = [proc |-> p, op |-> op, args |-> <<>>, secOK |-> TRUE,
                ret |-> Void, sec |-> r1.sec]
    /\ shadow' = r2.w
    /\ UNCHANGED hist

\* The authentications of the two runs: the same method and user.
AuthPairs ==
    {<<iSCSIAuthCreateNone, iSCSIAuthCreateNone>>} \cup
    {<<iSCSIAuthCreateCHAP(u, s1), iSCSIAuthCreateCHAP(u, s2)>> :
        u \in NIUsers, s1 \in Secrets, s2 \in Secrets}

NISetTarget(p, target) ==
    PairCall(p, "SetTarget", iSCSIPLSetTarget(Cur, p, target),
             iSCSIPLSetTarget(shadow, p, target))

NISetInitiatorIQN(p, initiatorIQN) ==
    PairCall(p, "SetInitiatorIQN", iSCSIPLSetInitiatorIQN(Cur, p, initiatorIQN),
             iSCSIPLSetInitiatorIQN(shadow, p, initiatorIQN))

NISetAuthenticationForTarget(p, targetIQN, auths) ==
    \E secOK \in SecChoices(iSCSIAuthGetMethod(auths[1]) = "CHAP"),
       ub \in UBChoices(TargetInfoRef(Cur, p, targetIQN) = NULL) :
        PairCall(p, "SetAuthenticationForTarget",
                 iSCSIPLSetAuthenticationForTarget(Cur, p, targetIQN, auths[1],
                                                   secOK, ub),
                 iSCSIPLSetAuthenticationForTarget(shadow, p, targetIQN, auths[2],
                                                   secOK, ub))

NISetAuthenticationForInitiator(p, auths) ==
    \E secOK \in SecChoices(iSCSIAuthGetMethod(auths[1]) = "CHAP") :
        PairCall(p, "SetAuthenticationForInitiator",
                 iSCSIPLSetAuthenticationForInitiator(Cur, p, auths[1], secOK),
                 iSCSIPLSetAuthenticationForInitiator(shadow, p, auths[2], secOK))

NICopyAuthenticationForTarget(p, targetIQN) ==
    \E secOK \in SecChoices(IsCHAP(TargetInfoRef(Cur, p, targetIQN))),
       ub \in UBChoices(/\ TargetInfoRef(Cur, p, targetIQN) # NULL
                        /\ ~HasAuthKey(TargetInfoRef(Cur, p, targetIQN))),
       item1 \in ItemChoices(Cur, targetIQN),
       item2 \in ItemChoices(shadow, targetIQN) :
        PairCall(p, "CopyAuthenticationForTarget",
                 iSCSIPLCopyAuthenticationForTarget(Cur, p, targetIQN, secOK,
                                                    item1, ub),
                 iSCSIPLCopyAuthenticationForTarget(shadow, p, targetIQN, secOK,
                                                    item2, ub))

NISynchronize(p) ==
    PairCall(p, "Synchronize", iSCSIPLSynchronize(Cur, p),
             iSCSIPLSynchronize(shadow, p))

NextNI ==
    \E p \in NIProcs :
        \/ \E target \in AuthTargets : NISetTarget(p, target)
        \/ \E initiatorIQN \in InitiatorIQNs : NISetInitiatorIQN(p, initiatorIQN)
        \/ \E t \in AuthTargetIQNs, auths \in AuthPairs :
               NISetAuthenticationForTarget(p, t, auths)
        \/ \E auths \in AuthPairs : NISetAuthenticationForInitiator(p, auths)
        \/ \E t \in AuthTargetIQNs : NICopyAuthenticationForTarget(p, t)
        \/ NISynchronize(p)

SpecNI == InitNI /\ [][NextNI]_vars

\* The plain configuration of a world: the caches with their flags, and the
\* preference store with the values that wait to be written to it.
PlainConfiguration(w) ==
    <<w.targetsCache, w.initiatorCache, w.discoveryCache,
      w.targetNodesCacheModified, w.initiatorNodeCacheModified,
      w.discoveryCacheModified, w.prefsStore, w.prefsPending>>

(***************************************************************************)
(* C10: the caches and the preference store do not depend on the CHAP      *)
(* secrets: two runs that differ only in the secrets passed to             *)
(* iSCSIPLSetAuthenticationForTarget and                                   *)
(* iSCSIPLSetAuthenticationForInitiator have the same caches and the same  *)
(* stored values after every call.                                         *)
(***************************************************************************)
C10_ConfigurationIndependentOfSecrets ==
    PlainConfiguration(Cur) = PlainConfiguration(shadow)

\* The two runs have stored the CHAP tag of the initiator, and their
\* keychains hold different secrets.
C10_Witness ==
    /\ last.op = "Synchronize"
    /\ IsCHAP(prefsStore[kiSCSIPKInitiatorKey])
    /\ \E i1 \in keychain, i2 \in shadow.keychain :
           /\ i1.label = i2.label /\ i1.account = i2.account
           /\ i1.secret # i2.secret
    /\ C10_ConfigurationIndependentOfSecrets

(***************************************************************************)
(* The record tree of one process: the accessors, the setters and the      *)
(* removals, called in any order on two targets and, for the first target, *)
(* two portals.                                                            *)
(***************************************************************************)
TreeProcs == {"A"}
TreePortalTargets == {"iqn.t1"}
TreeDiscoveryRecs == {("iqn.t1" :> "10.0.0.1:3260")}

\* A dictionary that a function returns.
Node(dict) == IF dict = NULL THEN NULL ELSE [node |-> dict]

GetTargets(p, createIfMissing) ==
    LET w == iSCSIPLGetTargets(Cur, p, createIfMissing)
    IN  Call(p, "GetTargets", <<createIfMissing>>, TRUE,
             Result(w, Node(TargetsRef(w, p)), "none"))

GetInitiator(p, createIfMissing) ==
    LET w == iSCSIPLGetInitiator(Cur, p, createIfMissing)
    IN  Call(p, "GetInitiator", <<createIfMissing>>, TRUE,
             Result(w, Node(w.initiatorCache[p]), "none"))

GetTargetInfo(p, targetIQN, createIfMissing) ==
    LET w == iSCSIPLGetTargetInfo(Cur, p, targetIQN, createIfMissing)
    IN  Call(p, "GetTargetInfo", <<targetIQN, createIfMissing>>, TRUE,
             Result(w, Node(TargetInfoRef(w, p, targetIQN)), "none"))

GetPortalsList(p, targetIQN, createIfMissing) ==
    LET w == iSCSIPLGetPortalsList(Cur, p, targetIQN, createIfMissing)
    IN  Call(p, "GetPortalsList", <<targetIQN, createIfMissing>>, TRUE,
             Result(w, Node(PortalsListRef(w, p, targetIQN)), "none"))

GetPortalInfo(p, targetIQN, portalAddress, createIfMissing) ==
    LET w == iSCSIPLGetPortalInfo(Cur, p, targetIQN, portalAddress,
                                  createIfMissing)
    IN  Call(p, "GetPortalInfo", <<targetIQN, portalAddress, createIfMissing>>,
             TRUE,
             Result(w, Node(PortalInfoRef(w, p, targetIQN, portalAddress)),
                    "none"))

SetSessionConfig(p, targetIQN, sessCfg) ==
    Call(p, "SetSessionConfig", <<targetIQN, sessCfg>>, TRUE,
         iSCSIPLSetSessionConfig(Cur, p, targetIQN, sessCfg))

SetConnectionConfig(p, targetIQN, portalAddress, connCfg) ==
    Call(p, "SetConnectionConfig", <<targetIQN, portalAddress, connCfg>>, TRUE,
         iSCSIPLSetConnectionConfig(Cur, p, targetIQN, portalAddress, connCfg))

SetPortalForTarget(p, targetIQN, portal) ==
    Call(p, "SetPortalForTarget", <<targetIQN, iSCSIPortalGetAddress(portal)>>,
         TRUE, iSCSIPLSetPortalForTarget(Cur, p, targetIQN, portal))

RemovePortalForTarget(p, targetIQN, portalAddress) ==
    Call(p, "RemovePortalForTarget", <<targetIQN, portalAddress>>, TRUE,
         iSCSIPLRemovePortalForTarget(Cur, p, targetIQN, portalAddress))

ContainsTarget(p, targetIQN) ==
    \E ub \in UBChoices(targetsCache[p] = NULL) :
        Call(p, "ContainsTarget", <<targetIQN>>, TRUE,
             iSCSIPLContainsTarget(Cur, p, targetIQN, ub))

NextTree ==
    \E p \in TreeProcs :
        \/ \E c \in BOOLEAN : GetTargets(p, c)
        \/ \E c \in BOOLEAN : GetInitiator(p, c)
        \/ \E t \in TargetIQNs, c \in BOOLEAN : GetTargetInfo(p, t, c)
        \/ \E t \in TreePortalTargets, c \in BOOLEAN : GetPortalsList(p, t, c)
        \/ \E t \in TreePortalTargets, a \in PortalAddresses, c \in BOOLEAN :
               GetPortalInfo(p, t, a, c)
        \/ \E t \in TargetIQNs : SetTarget(p, [iqn |-> t])
        \/ \E t \in TargetIQNs : RemoveTarget(p, t)
        \/ \E t \in TreePortalTargets, sessCfg \in SessionConfigs :
               SetSessionConfig(p, t, sessCfg)
        \/ \E t \in TreePortalTargets, a \in PortalAddresses,
              connCfg \in ConnectionConfigs :
               SetConnectionConfig(p, t, a, connCfg)
        \/ \E t \in TreePortalTargets, portal \in PortalObjects :
               SetPortalForTarget(p, t, portal)
        \/ \E t \in TreePortalTargets, a \in PortalAddresses :
               RemovePortalForTarget(p, t, a)
        \/ \E t \in TargetIQNs : ContainsTarget(p, t)
        \/ \E initiatorIQN \in InitiatorIQNs : SetInitiatorIQN(p, initiatorIQN)
        \/ \E rec \in TreeDiscoveryRecs : AddDiscoveryRecord(p, rec)

SpecTree == Init /\ [][NextTree]_vars

(***************************************************************************)
(* C11: iSCSIPLContainsTarget(x) returns false when the targets cache      *)
(* holds no target x, the cache that was never loaded included, and true   *)
(* when it is called right after iSCSIPLSetTarget of a target named x.     *)
(***************************************************************************)
C11_ContainsTargetFollowsCache ==
    [][\A t \in TargetIQNs :
          (last'.op = "ContainsTarget" /\ last'.args = <<t>>) =>
              /\ (\/ targetsCache[last'.proc] = NULL
                  \/ ~CFDictionaryContainsKey(targetsCache[last'.proc], t))
                 => last'.ret = Bool(FALSE)
              /\ (/\ last.op = "SetTarget" /\ last.args = <<t>>
                  /\ last.proc = last'.proc)
                 => last'.ret = Bool(TRUE)]_vars

\* Whether the targets dictionary holds the target, and the portals of a target
\* in it (NULL when the target has none).
HoldsTarget(cache, targetIQN) ==
    cache # NULL /\ CFDictionaryContainsKey(cache, targetIQN)

PortalsIn(cache, targetIQN) ==
    IF HoldsTarget(cache, targetIQN)
    THEN CFDictionaryGetValue(cache[targetIQN], kiSCSIPKPortalsKey)
    ELSE NULL

HoldsPortal(cache, targetIQN, portalAddress) ==
    /\ PortalsIn(cache, targetIQN) # NULL
    /\ CFDictionaryContainsKey(PortalsIn(cache, targetIQN), portalAddress)

(***************************************************************************)
(* C12, as stated: iSCSIPLRemoveTarget(x) for a target x that the cache    *)
(* does not hold (the cache may be NULL, empty or hold other targets)      *)
(* goes on without error, leaves x out of the cache and sets the targets   *)
(* flag; iSCSIPLRemovePortalForTarget for a portal that the cache does not *)
(* hold sets the targets flag as well.                                     *)
(***************************************************************************)
C12_RemoveAbsentAlwaysSetsFlag ==
    [][\A p \in TreeProcs, t \in TargetIQNs, a \in PortalAddresses :
          /\ (/\ last'.proc = p /\ last'.op = "RemoveTarget"
              /\ last'.args = <<t>> /\ ~HoldsTarget(targetsCache[p], t))
             => /\ pc'[p] = "ready" /\ last'.ret = Void
                /\ ~HoldsTarget(targetsCache'[p], t)
                /\ targetNodesCacheModified'[p]
          /\ (/\ last'.proc = p /\ last'.op = "RemovePortalForTarget"
              /\ last'.args = <<t, a>> /\ ~HoldsPortal(targetsCache[p], t, a))
             => /\ pc'[p] = "ready" /\ last'.ret = Void
                /\ targetNodesCacheModified'[p]]_vars

(***************************************************************************)
(* C12, amended: iSCSIPLRemoveTarget(x) for a target x that the cache does *)
(* not hold goes on without error and leaves x out of the cache; it sets   *)
(* the targets flag when the cache is not NULL, and changes neither cache  *)
(* nor flag when the cache is NULL.  iSCSIPLRemovePortalForTarget(x, a)    *)
(* for a portal the cache does not hold sets the targets flag when x has a *)
(* portals dictionary, and changes neither cache nor flag when it has not. *)
(***************************************************************************)
C12_RemoveAbsentSetsFlagOfLoadedCache ==
    [][\A p \in TreeProcs, t \in TargetIQNs, a \in PortalAddresses :
          /\ (/\ last'.proc = p /\ last'.op = "RemoveTarget"
              /\ last'.args = <<t>> /\ ~HoldsTarget(targetsCache[p], t))
             => /\ pc'[p] = "ready" /\ last'.ret = Void
                /\ ~HoldsTarget(targetsCache'[p], t)
                /\ targetsCache'[p] = targetsCache[p]
                /\ targetNodesCacheModified'[p] =
                       (targetsCache[p] # NULL \/ targetNodesCacheModified[p])
          /\ (/\ last'.proc = p /\ last'.op = "RemovePortalForTarget"
              /\ last'.args = <<t, a>> /\ ~HoldsPortal(targetsCache[p], t, a))
             => /\ pc'[p] = "ready" /\ last'.ret = Void
                /\ targetsCache'[p] = targetsCache[p]
                /\ targetNodesCacheModified'[p] =
                       (\/ PortalsIn(targetsCache[p], t) # NULL
                        \/ targetNodesCacheModified[p])]_vars

\* iSCSIPLRemoveTarget of a target the cache does not hold has set the flag of
\* a cache that holds nothing but the other target, which was never written.
C12_Witness ==
    /\ last.op = "RemoveTarget" /\ last.args = <<"iqn.t2">>
    /\ targetsCache["A"] # NULL
    /\ DOMAIN targetsCache["A"] = {"iqn.t1"}
    /\ targetsCache["A"]["iqn.t1"] = CFDictionaryCreateMutable
    /\ targetNodesCacheModified["A"]
    /\ initiatorCache["A"] = NULL /\ discoveryCache["A"] = NULL

(***************************************************************************)
(* The discovery record of one process: records that name one or both      *)
(* targets are added, the record is copied and cleared, and the process    *)
(* synchronizes.                                                           *)
(***************************************************************************)
DiscoveryProcs == {"A"}
DiscoveryPortals == {"10.0.0.1:3260", "10.0.0.2:3260"}
DiscoveryRecs ==
    UNION {[keys -> DiscoveryPortals] : keys \in (SUBSET TargetIQNs) \ {{}}}

CopyDiscoveryRecord(p) ==
    Call(p, "CopyDiscoveryRecord", <<>>, TRUE,
         iSCSIPLCopyDiscoveryRecord(Cur, p))

NextDiscovery ==
    \E p \in DiscoveryProcs :
        \/ \E rec \in DiscoveryRecs \cup {NULL} : AddDiscoveryRecord(p, rec)
        \/ ClearDiscoveryRecord(p)
        \/ CopyDiscoveryRecord(p)
        \/ Synchronize(p)

SpecDiscovery == Init /\ [][NextDiscovery]_vars

(***************************************************************************)
(* C13: after iSCSIPLAddDiscoveryRecord(r) the discovery cache has the     *)
(* keys it had (none when it was NULL) and the keys of r; a key of r has   *)
(* the value r gives it and every other key the value it had; the          *)
(* discovery flag is set.                                                  *)
(***************************************************************************)
C13_AddDiscoveryRecordIsUnion ==
    [][\A p \in DiscoveryProcs, r \in DiscoveryRecs :
          (/\ last'.proc = p /\ last'.op = "AddDiscoveryRecord"
           /\ last'.args = <<r>>)
          => LET old == IF discoveryCache[p] = NULL
                        THEN CFDictionaryCreateMutable
                        ELSE discoveryCache[p]
                 new == discoveryCache'[p]
             IN  /\ new # NULL
                 /\ DOMAIN new = DOMAIN old \cup DOMAIN r
                 /\ \A k \in DOMAIN r : new[k] = r[k]
                 /\ \A k \in DOMAIN old \ DOMAIN r : new[k] = old[k]
                 /\ discoveryCacheModified'[p]
                 /\ pc'[p] = "ready"]_vars

\* A record that names the first target only was added to a cache that held
\* both: the second target has kept the portal it had.
C13_Witness ==
    /\ last.op = "AddDiscoveryRecord"
    /\ last.args = <<("iqn.t1" :> "10.0.0.2:3260")>>
    /\ discoveryCache["A"] # NULL
    /\ discoveryCache["A"] =
           ("iqn.t1" :> "10.0.0.2:3260") @@ ("iqn.t2" :> "10.0.0.1:3260")
    /\ discoveryCacheModified["A"]

(***************************************************************************)
(* C14: iSCSIPLGetTargetInfo, iSCSIPLGetPortalsList and                    *)
(* iSCSIPLGetPortalInfo, called with createIfMissing on a target, a        *)
(* portals dictionary or a portal that the cache holds, return the          *)
(* dictionary that is there and leave the targets cache as it was; a       *)
(* second call with the arguments of the call before it returns what the   *)
(* first returned and changes nothing.                                     *)
(***************************************************************************)
CreatingAccessors == {"GetTargetInfo", "GetPortalsList", "GetPortalInfo"}

C14_GetOrCreateKeepsWhatIsThere ==
    [][\A p \in TreeProcs :
          /\ (/\ last'.proc = p /\ last'.op = "GetTargetInfo" /\ last'.args[2]
              /\ HoldsTarget(targetsCache[p], last'.args[1]))
             => /\ targetsCache'[p] = targetsCache[p]
                /\ last'.ret = Node(targetsCache[p][last'.args[1]])
          /\ (/\ last'.proc = p /\ last'.op = "GetPortalsList" /\ last'.args[2]
              /\ PortalsIn(targetsCache[p], last'.args[1]) # NULL)
             => /\ targetsCache'[p] = targetsCache[p]
                /\ last'.ret = Node(PortalsIn(targetsCache[p], last'.args[1]))
          /\ (/\ last'.proc = p /\ last'.op = "GetPortalInfo" /\ last'.args[3]
              /\ HoldsPortal(targetsCache[p], last'.args[1], last'.args[2]))
             => /\ targetsCache'[p] = targetsCache[p]
                /\ last'.ret = Node(PortalsIn(targetsCache[p], last'.args[1])
                                        [last'.args[2]])
          /\ (/\ last'.proc = p /\ last.proc = p
              /\ last'.op \in CreatingAccessors /\ last.op = last'.op
              /\ last.args = last'.args /\ last.args[Len(last.args)])
             => /\ targetsCache'[p] = targetsCache[p]
                /\ last'.ret = last.ret]_vars

\* iSCSIPLGetPortalInfo with createIfMissing has returned a portal that held a
\* connection configuration, with another portal beside it.
C14_Witness ==
    /\ last.op = "GetPortalInfo"
    /\ last.args = <<"iqn.t1", "10.0.0.1", TRUE>>
    /\ last.ret # NULL
    /\ last.ret.node[kiSCSIPKConnectionCfgKey] = "connection c1"
    /\ HoldsPortal(targetsCache["A"], "iqn.t1", "10.0.0.2")
    /\ PortalsIn(targetsCache["A"], "iqn.t1")["10.0.0.1"] = last.ret.node

(***************************************************************************)
(* C15: when iSCSIPLGetTargetInfo, iSCSIPLGetPortalsList or                *)
(* iSCSIPLGetPortalInfo, called with createIfMissing, has put a dictionary *)
(* into the targets cache, the targets flag is set when the call returns.  *)
(***************************************************************************)
C15_CreationSetsFlag ==
    [][\A p \in TreeProcs :
          (/\ last'.proc = p /\ last'.op \in CreatingAccessors
           /\ last'.args[Len(last'.args)]
           /\ targetsCache'[p] # targetsCache[p])
          => targetNodesCacheModified'[p]]_vars

(***************************************************************************)
(* The reads of one process.  The writes put one target with a session     *)
(* configuration, an authentication and one portal, the name and alias of  *)
(* the initiator and one discovery record into the caches; every read is   *)
(* called before, between and after them, for the target and the portal    *)
(* that are written and for a target and a portal that never are.          *)
(***************************************************************************)
ReadProcs == {"A"}
ReadTargets == {"iqn.t1"}
ReadPortals == {"10.0.0.1"}
ReadAuths == {iSCSIAuthCreateNone, iSCSIAuthCreateCHAP("alice", "s3cret")}

CopySessionConfig(p, targetIQN) ==
    \E ub \in UBChoices(
                 /\ HoldsTarget(targetsCache[p], targetIQN)
                 /\ ~CFDictionaryContainsKey(targetsCache[p][targetIQN],
                                             kiSCSIPKSessionCfgKey)) :
        Call(p, "CopySessionConfig", <<targetIQN>>, TRUE,
             iSCSIPLCopySessionConfig(Cur, p, targetIQN, ub))

CopyPortalForTarget(p, targetIQN, portalAddress) ==
    \E ub \in UBChoices(
                 /\ HoldsPortal(targetsCache[p], targetIQN, portalAddress)
                 /\ PortalsIn(targetsCache[p], targetIQN)[portalAddress]
                        [kiSCSIPKPortalKey] = "") :
        Call(p, "CopyPortalForTarget", <<targetIQN, portalAddress>>, TRUE,
             iSCSIPLCopyPortalForTarget(Cur, p, targetIQN, portalAddress, ub))

CopyTarget(p, targetIQN) ==
    Call(p, "CopyTarget", <<targetIQN>>, TRUE,
         iSCSIPLCopyTarget(Cur, p, targetIQN))

CopyConnectionConfig(p, targetIQN, portalAddress) ==
    \E ub \in UBChoices(
                 /\ HoldsPortal(targetsCache[p], targetIQN, portalAddress)
                 /\ PortalsIn(targetsCache[p], targetIQN)[portalAddress]
                        [kiSCSIPKConnectionCfgKey] = "") :
        Call(p, "CopyConnectionConfig", <<targetIQN, portalAddress>>, TRUE,
             iSCSIPLCopyConnectionConfig(Cur, p, targetIQN, portalAddress, ub))

CopyInitiatorIQN(p) ==
    Call(p, "CopyInitiatorIQN", <<>>, TRUE,
         Result(Cur,
                IF initiatorCache[p] = NULL THEN NULL
                ELSE Value(iSCSIPLCopyInitiatorIQN(Cur, p)),
                "none"))

CopyInitiatorAlias(p) ==
    Call(p, "CopyInitiatorAlias", <<>>, TRUE,
         iSCSIPLCopyInitiatorAlias(Cur, p))

SetInitiatorAlias(p, initiatorAlias) ==
    Call(p, "SetInitiatorAlias", <<initiatorAlias>>, TRUE,
         iSCSIPLSetInitiatorAlias(Cur, p, initiatorAlias))

ContainsPortalForTarget(p, targetIQN, portalAddress) ==
    Call(p, "ContainsPortalForTarget", <<targetIQN, portalAddress>>, TRUE,
         iSCSIPLContainsPortalForTarget(Cur, p, targetIQN, portalAddress))

CreateArrayOfTargets(p) ==
    Call(p, "CreateArrayOfTargets", <<>>, TRUE,
         iSCSIPLCreateArrayOfTargets(Cur, p))

CreateArrayOfPortals(p, targetIQN) ==
    Call(p, "CreateArrayOfPortals", <<targetIQN>>, TRUE,
         iSCSIPLCreateArrayOfPortals(Cur, p, targetIQN))

NextReads ==
    \E p \in ReadProcs :
        \/ \E t \in ReadTargets : SetTarget(p, [iqn |-> t])
        \/ \E t \in ReadTargets, sessCfg \in SessionConfigs :
               SetSessionConfig(p, t, sessCfg)
        \/ \E t \in ReadTargets, a \in ReadPortals :
               SetPortalForTarget(p, t, [address |-> a])
        \/ \E t \in ReadTargets, a \in ReadPortals,
              connCfg \in ConnectionConfigs :
               SetConnectionConfig(p, t, a, connCfg)
        \/ \E t \in ReadTargets, auth \in ReadAuths :
               SetAuthenticationForTarget(p, t, auth)
        \/ \E initiatorIQN \in InitiatorIQNs : SetInitiatorIQN(p, initiatorIQN)
        \/ SetInitiatorAlias(p, "initiator")
        \/ \E rec \in TreeDiscoveryRecs : AddDiscoveryRecord(p, rec)
        \/ GetTargets(p, FALSE)
        \/ GetInitiator(p, FALSE)
        \/ \E t \in TargetIQNs : GetTargetInfo(p, t, FALSE)
        \/ \E t \in TargetIQNs : GetPortalsList(p, t, FALSE)
        \/ \E t \in TargetIQNs, a \in PortalAddresses :
               GetPortalInfo(p, t, a, FALSE)
        \/ \E t \in TargetIQNs : CopySessionConfig(p, t)
        \/ \E t \in TargetIQNs, a \in PortalAddresses :
               CopyPortalForTarget(p, t, a)
        \/ \E t \in TargetIQNs : CopyTarget(p, t)
        \/ \E t \in TargetIQNs, a \in PortalAddresses :
               CopyConnectionConfig(p, t, a)
        \/ \E t \in TargetIQNs : CopyAuthenticationForTarget(p, t)
        \/ CopyAuthenticationForInitiator(p)
        \/ CopyInitiatorIQN(p)
        \/ CopyInitiatorAlias(p)
        \/ CopyDiscoveryRecord(p)
        \/ \E t \in TargetIQNs : ContainsTarget(p, t)
        \/ \E t \in TargetIQNs, a \in PortalAddresses :
               ContainsPortalForTarget(p, t, a)
        \/ CreateArrayOfTargets(p)
        \/ \E t \in TargetIQNs : CreateArrayOfPortals(p, t)

SpecReads == Init /\ [][NextReads]_vars

(***************************************************************************)
(* C16: the accessors called without createIfMissing, the copy functions,  *)
(* the contains predicates and the enumerations change none of the three   *)
(* caches and three flags, nothing in the preferences and nothing in the   *)
(* keychain.                                                               *)
(***************************************************************************)
ReadAccessors ==
    {"GetTargets", "GetInitiator", "GetTargetInfo", "GetPortalsList",
     "GetPortalInfo"}

ReadOps ==
    {"CopySessionConfig", "CopyPortalForTarget", "CopyTarget",
     "CopyConnectionConfig", "CopyAuthenticationForTarget",
     "CopyAuthenticationForInitiator", "CopyInitiatorIQN",
     "CopyInitiatorAlias", "CopyDiscoveryRecord", "ContainsTarget",
     "ContainsPortalForTarget", "CreateArrayOfTargets",
     "CreateArrayOfPortals"}

C16_ReadsChangeNothing ==
    [][(\/ last'.op \in ReadOps
        \/ last'.op \in ReadAccessors /\ ~last'.args[Len(last'.args)])
       => UNCHANGED <<targetsCache, initiatorCache, discoveryCache,
                      targetNodesCacheModified, initiatorNodeCacheModified,
                      discoveryCacheModified, prefsPending, prefsStore,
                      keychain>>]_vars

\* iSCSIPLCopyAuthenticationForTarget has read the secret of the target from
\* the keychain; the cache holds the target with its portal and the flag of
\* the targets is set.
C16_Witness ==
    /\ last.op = "CopyAuthenticationForTarget"
    /\ last.ret = iSCSIAuthCreateCHAP("alice", "s3cret")
    /\ last.sec = "read"
    /\ keychain # {}
    /\ HoldsPortal(targetsCache["A"], "iqn.t1", "10.0.0.1")
    /\ targetNodesCacheModified["A"]
    /\ initiatorCache["A"] # NULL /\ discoveryCache["A"] # NULL

(***************************************************************************)
(* C17, as stated: iSCSIPLGetTargets and iSCSIPLGetInitiator, called with  *)
(* createIfMissing on a NULL cache, make an empty dictionary the cache and *)
(* return it, and leave the flag of the cache as it was; called without    *)
(* createIfMissing on a NULL cache they return NULL and the cache stays    *)
(* NULL; called on a cache that is there they return it unchanged.         *)
(***************************************************************************)
NamespaceGetIs(p, op, cache, cacheAfter, flag, flagAfter, fresh) ==
    (last'.proc = p /\ last'.op = op)
    => /\ flagAfter = flag
       /\ IF cache # NULL
          THEN cacheAfter = cache /\ last'.ret = Node(cache)
          ELSE IF last'.args[1]
          THEN cacheAfter = fresh /\ last'.ret = Node(fresh)
          ELSE cacheAfter = NULL /\ last'.ret = NULL

C17_GetMaterializesEmptyMapping ==
    [][\A p \in TreeProcs :
          /\ NamespaceGetIs(p, "GetTargets", targetsCache[p], targetsCache'[p],
                            targetNodesCacheModified[p],
                            targetNodesCacheModified'[p],
                            CFDictionaryCreateMutable)
          /\ NamespaceGetIs(p, "GetInitiator", initiatorCache[p],
                            initiatorCache'[p], initiatorNodeCacheModified[p],
                            initiatorNodeCacheModified'[p],
                            CFDictionaryCreateMutable)]_vars

(***************************************************************************)
(* C17, amended: as stated for iSCSIPLGetTargets; the dictionary that      *)
(* iSCSIPLGetInitiator makes is not empty: it holds the keys "Alias" and   *)
(* "Name", each with the empty string.                                     *)
(***************************************************************************)
C17_GetMaterializesDefaultMapping ==
    [][\A p \in TreeProcs :
          /\ NamespaceGetIs(p, "GetTargets", targetsCache[p], targetsCache'[p],
                            targetNodesCacheModified[p],
                            targetNodesCacheModified'[p],
                            CFDictionaryCreateMutable)
          /\ NamespaceGetIs(p, "GetInitiator", initiatorCache[p],
                            initiatorCache'[p], initiatorNodeCacheModified[p],
                            initiatorNodeCacheModified'[p],
                            ("Alias" :> "") @@ ("Name" :> ""))]_vars

\* iSCSIPLGetInitiator has made the initiator cache: the flag is not set.
C17_Witness ==
    /\ last.op = "GetInitiator" /\ last.args = <<TRUE>>
    /\ last.ret = Node(("Alias" :> "") @@ ("Name" :> ""))
    /\ initiatorCache["A"] # NULL
    /\ ~initiatorNodeCacheModified["A"]
    /\ targetsCache["A"] = CFDictionaryCreateMutable
    /\ ~targetNodesCacheModified["A"]

(***************************************************************************)
(* C18: the steps of one call of iSCSIPLSynchronize come in one order.     *)
(* The values of the modified caches are handed to CFPreferencesSetValue   *)
(* in the order targets, initiator, discovery; the one commit comes after  *)
(* these and is the only step that changes what is stored; the caches are  *)
(* reloaded after the commit, in the same order; the flags change in the   *)
(* last step only.                                                         *)
(***************************************************************************)
SyncLabels ==
    <<"ready", "L733", "L737", "L741", "L743", "L753", "L763", "L773">>

\* The number of the step that leaves the label.
StepFrom(label) == CHOOSE i \in DOMAIN SyncLabels : SyncLabels[i] = label

\* The steps that write, and reload, the cache of a key.
WriteStepOf(key) ==
    IF key = kiSCSIPKTargetsKey THEN 1
    ELSE IF key = kiSCSIPKInitiatorKey THEN 2 ELSE 3

ReloadStepOf(key) == WriteStepOf(key) + 4

\* How many times p has committed.
CommitsOf(commits, p) ==
    Cardinality({i \in DOMAIN commits : commits[i] = p})

C18_SynchronizeStepsInOrder ==
    [][\A p \in Procs :
          pc'[p] # pc[p] =>
              LET i == StepFrom(pc[p])
              IN  /\ pc'[p] = SyncLabels[(i % Len(SyncLabels)) + 1]
                  /\ \A key \in PrefKeys :
                        /\ (/\ key \in DOMAIN prefsPending'[p]
                            /\ key \notin DOMAIN prefsPending[p])
                           => i = WriteStepOf(key)
                        /\ CacheOf(key, p)' # CacheOf(key, p)
                           => i = ReloadStepOf(key)
                        /\ ModifiedOf(key, p)' # ModifiedOf(key, p) => i = 8
                  /\ prefsStore' # prefsStore => i = 4
                  /\ CommitsOf(hist'.commits, p) =
                         CommitsOf(hist.commits, p) + (IF i = 4 THEN 1 ELSE 0)
                  /\ i # 4 => DOMAIN prefsPending[p] \subseteq
                                  DOMAIN prefsPending'[p]]_vars

\* A is before its last step: it has written its targets, committed them and
\* B's initiator name that it found stored is in its cache.
C18_Witness ==
    /\ pc["A"] = "L773"
    /\ targetNodesCacheModified["A"] /\ ~initiatorNodeCacheModified["A"]
    /\ CommitsOf(hist.commits, "A") = 1
    /\ prefsPending["A"] = CFDictionaryCreateMutable
    /\ prefsStore[kiSCSIPKTargetsKey] = targetsCache["A"]
    /\ initiatorCache["A"] # NULL
    /\ initiatorCache["A"] = prefsStore[kiSCSIPKInitiatorKey]

(***************************************************************************)
(* C19: iSCSIPLSetTarget, iSCSIPLSetSessionConfig,                         *)
(* iSCSIPLSetConnectionConfig and iSCSIPLSetPortalForTarget, called in any *)
(* state of the targets cache, leave a cache in which every dictionary on  *)
(* the way to the key they write is there, the key has the new value, and  *)
(* every other key at every level has the value it had (a portal that was  *)
(* not there has its three keys with the empty string); the targets flag   *)
(* is set and the other caches and flags are as they were.                 *)
(***************************************************************************)
\* A dictionary, empty when it is not there.
DictOr(dict, default) == IF dict = NULL THEN default ELSE dict

\* new has the keys of old and `key`, and the values of old but for `key`.
SameBut(old, new, key) ==
    /\ new # NULL
    /\ DOMAIN new = DOMAIN old \cup {key}
    /\ \A k \in DOMAIN old \ {key} : new[k] = old[k]

\* The cache after a setter that writes value under leaf in the dictionary of
\* target t.
TargetLeafSet(old, new, t, leaf, value) ==
    LET old0 == DictOr(old, CFDictionaryCreateMutable)
        old1 == DictOr(CFDictionaryGetValue(old0, t), CFDictionaryCreateMutable)
    IN  /\ SameBut(old0, new, t)
        /\ SameBut(old1, new[t], leaf)
        /\ new[t][leaf] = value

\* The cache after a setter that writes value under leaf in the dictionary of
\* portal a of target t.
PortalLeafSet(old, new, t, a, leaf, value) ==
    LET old0 == DictOr(old, CFDictionaryCreateMutable)
        old1 == DictOr(CFDictionaryGetValue(old0, t), CFDictionaryCreateMutable)
        old2 == DictOr(CFDictionaryGetValue(old1, kiSCSIPKPortalsKey),
                       CFDictionaryCreateMutable)
        old3 == DictOr(CFDictionaryGetValue(old2, a),
                       ("Authentication" :> "")
                           @@ ("Connection Configuration" :> "")
                           @@ ("Portal Data" :> ""))
    IN  /\ SameBut(old0, new, t)
        /\ SameBut(old1, new[t], kiSCSIPKPortalsKey)
        /\ SameBut(old2, new[t][kiSCSIPKPortalsKey], a)
        /\ SameBut(old3, new[t][kiSCSIPKPortalsKey][a], leaf)
        /\ new[t][kiSCSIPKPortalsKey][a][leaf] = value

Setters ==
    {"SetTarget", "SetSessionConfig", "SetConnectionConfig",
     "SetPortalForTarget"}

C19_SettersWriteOneLeaf ==
    [][\A p \in TreeProcs :
          (last'.proc = p /\ last'.op \in Setters) =>
              LET old == targetsCache[p]
                  new == targetsCache'[p]
                  args == last'.args
              IN  /\ pc'[p] = "ready" /\ last'.ret = Void
                  /\ targetNodesCacheModified'[p]
                  /\ UNCHANGED <<initiatorCache, discoveryCache,
                                 initiatorNodeCacheModified,
                                 discoveryCacheModified>>
                  /\ last'.op = "SetTarget" =>
                         TargetLeafSet(old, new, args[1], "Target Data",
                                       "target " \o args[1])
                  /\ last'.op = "SetSessionConfig" =>
                         TargetLeafSet(old, new, args[1],
                                       "Session Configuration",
                                       "session " \o args[2].id)
                  /\ last'.op = "SetConnectionConfig" =>
                         PortalLeafSet(old, new, args[1], args[2],
                                       "Connection Configuration",
                                       "connection " \o args[3].id)
                  /\ last'.op = "SetPortalForTarget" =>
                         PortalLeafSet(old, new, args[1], args[2],
                                       "Portal Data", "portal " \o args[2])]_vars

\* iSCSIPLSetConnectionConfig has written the configuration of the first
\* portal: the data of the second portal, the session configuration of the
\* target and the other target are there, and the first portal has no data.
C19_Witness ==
    /\ last.op = "SetConnectionConfig" /\ last.args[2] = "10.0.0.1"
    /\ HoldsTarget(targetsCache["A"], "iqn.t2")
    /\ HoldsPortal(targetsCache["A"], "iqn.t1", "10.0.0.2")
    /\ CFDictionaryContainsKey(targetsCache["A"]["iqn.t1"],
                               kiSCSIPKSessionCfgKey)
    /\ PortalsIn(targetsCache["A"], "iqn.t1")["10.0.0.2"][kiSCSIPKPortalKey]
           = "portal 10.0.0.2"
    /\ PortalsIn(targetsCache["A"], "iqn.t1")["10.0.0.1"][kiSCSIPKPortalKey]
           = ""
    /\ PortalsIn(targetsCache["A"], "iqn.t1")["10.0.0.1"]
           [kiSCSIPKConnectionCfgKey] = "connection c1"

(***************************************************************************)
(* C20: iSCSIPLRemoveTarget(x) takes the key x, and nothing else, out of   *)
(* the targets dictionary; iSCSIPLRemovePortalForTarget(x, a) takes the    *)
(* key a, and nothing else, out of the portals dictionary of x: the other  *)
(* targets, the other portals of x, the other keys of x, and the caches    *)
(* and flags of the initiator and of the discovery record are as they      *)
(* were.                                                                   *)
(***************************************************************************)
\* new has the keys of old but `key`, with the values of old.
SameWithout(old, new, key) ==
    /\ new # NULL
    /\ DOMAIN new = DOMAIN old \ {key}
    /\ \A k \in DOMAIN new : new[k] = old[k]

C20_RemovalsTakeOneKey ==
    [][\A p \in TreeProcs :
          LET old == targetsCache[p]
              new == targetsCache'[p]
              args == last'.args
          IN  /\ (last'.proc = p /\ last'.op = "RemoveTarget")
                 => /\ IF old = NULL THEN new = NULL
                       ELSE SameWithout(old, new, args[1])
                    /\ UNCHANGED <<initiatorCache, discoveryCache,
                                   initiatorNodeCacheModified,
                                   discoveryCacheModified>>
              /\ (last'.proc = p /\ last'.op = "RemovePortalForTarget")
                 => /\ IF PortalsIn(old, args[1]) = NULL THEN new = old
                       ELSE /\ SameBut(old, new, args[1])
                            /\ SameBut(old[args[1]], new[args[1]],
                                       kiSCSIPKPortalsKey)
                            /\ SameWithout(PortalsIn(old, args[1]),
                                           PortalsIn(new, args[1]), args[2])
                    /\ UNCHANGED <<initiatorCache, discoveryCache,
                                   initiatorNodeCacheModified,
                                   discoveryCacheModified>>]_vars

\* iSCSIPLRemovePortalForTarget has removed the first portal: the second with
\* its data, the data and the session configuration of the target, the other
\* target and the name of the initiator are there.
C20_Witness ==
    /\ last.op = "RemovePortalForTarget"
    /\ last.args = <<"iqn.t1", "10.0.0.1">>
    /\ ~HoldsPortal(targetsCache["A"], "iqn.t1", "10.0.0.1")
    /\ HoldsPortal(targetsCache["A"], "iqn.t1", "10.0.0.2")
    /\ PortalsIn(targetsCache["A"], "iqn.t1")["10.0.0.2"][kiSCSIPKPortalKey]
           = "portal 10.0.0.2"
    /\ CFDictionaryContainsKey(targetsCache["A"]["iqn.t1"], kiSCSIPKTargetKey)
    /\ CFDictionaryContainsKey(targetsCache["A"]["iqn.t1"],
                               kiSCSIPKSessionCfgKey)
    /\ HoldsTarget(targetsCache["A"], "iqn.t2")
    /\ initiatorCache["A"] # NULL /\ initiatorNodeCacheModified["A"]

(***************************************************************************)
(* C21: iSCSIPLClearDiscoveryRecord, called with the discovery cache       *)
(* present or NULL, returns with the discovery cache NULL and the          *)
(* discovery flag set and the process alive; a call of                     *)
(* iSCSIPLCopyDiscoveryRecord made next returns NULL, and a call of        *)
(* iSCSIPLSynchronize made next stores no value under the discovery key    *)
(* and leaves the cache NULL.                                              *)
(***************************************************************************)
C21_ClearDiscoveryRecordFromAnyState ==
    [][\A p \in DiscoveryProcs :
          /\ (last'.proc = p /\ last'.op = "ClearDiscoveryRecord")
             => /\ pc'[p] = "ready"
                /\ discoveryCache'[p] = NULL
                /\ discoveryCacheModified'[p]
          /\ (/\ last.proc = p /\ last.op = "ClearDiscoveryRecord"
              /\ last'.proc = p /\ last'.op = "CopyDiscoveryRecord")
             => last'.ret = NULL
          /\ (/\ last.proc = p /\ last.op = "ClearDiscoveryRecord"
              /\ last'.proc = p /\ last'.op = "Synchronize")
             => /\ prefsStore'[kiSCSIPKDiscoveryKey] = NULL
                /\ discoveryCache'[p] = NULL]_vars

(***************************************************************************)
(* C22: a read whose path does not resolve returns NULL, or false when it  *)
(* is a predicate, and the process stays alive:                            *)
(* iSCSIPLCopySessionConfig, iSCSIPLCopyTarget and                         *)
(* iSCSIPLCopyAuthenticationForTarget of a target the cache does not hold  *)
(* (the NULL cache included); iSCSIPLCopyPortalForTarget and               *)
(* iSCSIPLCopyConnectionConfig of a portal that the target, its portals    *)
(* dictionary or the cache does not hold; the two contains predicates and  *)
(* the two enumerations likewise; the initiator reads with a NULL          *)
(* initiator cache and iSCSIPLCopyDiscoveryRecord with a NULL discovery    *)
(* cache.                                                                  *)
(***************************************************************************)
TargetReads ==
    {"CopySessionConfig", "CopyTarget", "CopyAuthenticationForTarget",
     "ContainsTarget", "CreateArrayOfPortals"}

PortalReads ==
    {"CopyPortalForTarget", "CopyConnectionConfig", "ContainsPortalForTarget"}

InitiatorReads ==
    {"CopyInitiatorIQN", "CopyInitiatorAlias", "CopyAuthenticationForInitiator"}

Predicates == {"ContainsTarget", "ContainsPortalForTarget"}

\* The path of the read that the next call of p makes does not resolve in the
\* caches as they are before the call.
Unresolved(p) ==
    \/ /\ last'.op \in TargetReads \ {"CreateArrayOfPortals"}
       /\ \E t \in TargetIQNs :
              last'.args = <<t>> /\ ~HoldsTarget(targetsCache[p], t)
    \/ /\ last'.op = "CreateArrayOfPortals"
       /\ \E t \in TargetIQNs :
              last'.args = <<t>> /\ PortalsIn(targetsCache[p], t) = NULL
    \/ /\ last'.op \in PortalReads
       /\ \E t \in TargetIQNs, a \in PortalAddresses :
              last'.args = <<t, a>> /\ ~HoldsPortal(targetsCache[p], t, a)
    \/ last'.op = "CreateArrayOfTargets" /\ targetsCache[p] = NULL
    \/ last'.op \in InitiatorReads /\ initiatorCache[p] = NULL
    \/ last'.op = "CopyDiscoveryRecord" /\ discoveryCache[p] = NULL

C22_UnresolvedReadsReturnAbsent ==
    [][\A p \in ReadProcs :
          (last'.proc = p /\ Unresolved(p))
          => /\ pc'[p] = "ready"
             /\ last'.ret = IF last'.op \in Predicates THEN Bool(FALSE)
                            ELSE NULL]_vars

(***************************************************************************)
(* C23: in every state, the value under the key "Authentication" of the    *)
(* initiator dictionary, of every target dictionary and of every portal    *)
(* dictionary of the caches that has the key is "None" or "CHAP".          *)
(***************************************************************************)
AuthValues == {kiSCSIPVAuthNone, kiSCSIPVAuthCHAP}

AuthValueOK(dict) == HasAuthKey(dict) => dict[kiSCSIPKAuthKey] \in AuthValues

C23_AuthenticationIsNoneOrCHAP ==
    \A p \in Procs :
        /\ AuthValueOK(initiatorCache[p])
        /\ targetsCache[p] # NULL
           => \A t \in DOMAIN targetsCache[p] :
                  /\ AuthValueOK(targetsCache[p][t])
                  /\ PortalsIn(targetsCache[p], t) # NULL
                     => \A a \in DOMAIN PortalsIn(targetsCache[p], t) :
                            AuthValueOK(PortalsIn(targetsCache[p], t)[a])

(***************************************************************************)
(* One process alone, with no other writer of the preferences: it adds     *)
(* targets, portals dictionaries and portals to its cache through the      *)
(* setters and through the accessors called with createIfMissing, and      *)
(* synchronizes.                                                           *)
(***************************************************************************)
LocalProcs == {"A"}
LocalPortalTargets == {"iqn.t1"}
LocalPortals == {"10.0.0.1"}

NextLocal ==
    \E p \in LocalProcs :
        \/ GetTargets(p, TRUE)
        \/ \E t \in TargetIQNs : GetTargetInfo(p, t, TRUE)
        \/ \E t \in LocalPortalTargets : GetPortalsList(p, t, TRUE)
        \/ \E t \in LocalPortalTargets, a \in LocalPortals :
               GetPortalInfo(p, t, a, TRUE)
        \/ \E t \in TargetIQNs : SetTarget(p, [iqn |-> t])
        \/ \E t \in LocalPortalTargets, a \in LocalPortals :
               SetPortalForTarget(p, t, [address |-> a])
        \/ \E t \in TargetIQNs : RemoveTarget(p, t)
        \/ Synchronize(p)

SpecLocal == Init /\ [][NextLocal]_vars

(***************************************************************************)
(* C24: with one process and no other writer, every target, every portals  *)
(* dictionary and every portal that the targets cache holds and the stored *)
(* preferences do not (what the process has added since it last           *)
(* synchronized, through a setter or an accessor called with              *)
(* createIfMissing) is in the targets cache and in the stored preferences  *)
(* after iSCSIPLSynchronize.                                               *)
(***************************************************************************)
StoredTargets == prefsStore[kiSCSIPKTargetsKey]

C24_SynchronizeKeepsLocalAdditions ==
    [][\A p \in LocalProcs :
          (last'.proc = p /\ last'.op = "Synchronize")
          => \A t \in TargetIQNs :
                 /\ (HoldsTarget(targetsCache[p], t)
                     /\ ~HoldsTarget(StoredTargets, t))
                    => /\ HoldsTarget(targetsCache'[p], t)
                       /\ HoldsTarget(StoredTargets', t)
                 /\ (PortalsIn(targetsCache[p], t) # NULL
                     /\ PortalsIn(StoredTargets, t) = NULL)
                    => /\ PortalsIn(targetsCache'[p], t) # NULL
                       /\ PortalsIn(StoredTargets', t) # NULL
                 /\ \A a \in PortalAddresses :
                        (HoldsPortal(targetsCache[p], t, a)
                         /\ ~HoldsPortal(StoredTargets, t, a))
                        => /\ HoldsPortal(targetsCache'[p], t, a)
                           /\ HoldsPortal(StoredTargets', t, a)]_vars

(***************************************************************************)
(* C25: when iSCSIPLSynchronize has returned, no other process having      *)
(* acted during the call, each of the three caches of the caller equals    *)
(* the value stored under the key of its namespace, a NULL cache going     *)
(* with no stored value; this whatever the flags and the caches were at    *)
(* the call, and nothing set by the caller is left unwritten.              *)
(***************************************************************************)
C25_SynchronizeMakesCacheEqualStore ==
    \A p \in Procs :
        (last.proc = p /\ last.op = "Synchronize")
        => /\ \A key \in PrefKeys : CacheOf(key, p) = prefsStore[key]
           /\ DOMAIN prefsPending[p] = {}

\* A has synchronized with the flags of the initiator and of the discovery
\* record set and that of the targets not: its targets cache is the stored
\* dictionary, which B wrote; the initiator it set is stored; the discovery
\* record it cleared is gone from the store, while B still holds the record
\* it had stored.
C25_Witness ==
    /\ last.proc = "A" /\ last.op = "Synchronize"
    /\ last.args = <<FALSE, TRUE, TRUE>>
    /\ targetsCache["A"] # NULL
    /\ targetsCache["A"] = prefsStore[kiSCSIPKTargetsKey]
    /\ HoldsTarget(targetsCache["A"], "iqn.t1")
    /\ initiatorCache["A"] # NULL
    /\ initiatorCache["A"] = prefsStore[kiSCSIPKInitiatorKey]
    /\ discoveryCache["A"] = NULL
    /\ prefsStore[kiSCSIPKDiscoveryKey] = NULL
    /\ discoveryCache["B"] # NULL /\ ~discoveryCacheModified["B"]

====
